---------------------------- MODULE Spec2Model ----------------------------
(***************************************************************************)
(* A model of the WHI RAG question-answering pipeline (rag/system.py):     *)
(* WHIRAGSystem.process_question, the four-node LangGraph workflow it      *)
(* invokes, the conversation memory it records into, and the pure text     *)
(* functions the nodes call.                                               *)
(*                                                                         *)
(* Representation of Python values                                         *)
(*   str    a sequence of characters, each character a TLA+ string of one  *)
(*          character; the two non-ASCII bullet characters of the list     *)
(*          pattern and the backtick, which a TLA+ string cannot hold, are *)
(*          written "U+2022", "U+00B7" and "U+0060"                        *)
(*   dict   a function from its keys (TLA+ strings) to its values; a key   *)
(*          that is not set is not in the DOMAIN                           *)
(*   list   a sequence                                                     *)
(*   float  confidence scores are kept in hundredths (0..100)              *)
(*   a value decoded from a model payload carries its JSON type:           *)
(*          [t |-> "str", v |-> ...], [t |-> "dict", v |-> ...], ...       *)
(***************************************************************************)
EXTENDS Integers, Sequences, FiniteSets, TLC

----------------------------------------------------------------------------
(* Characters and elementary string operations (Python str, module re)     *)

\* The characters Python's \s, str.strip() and str.split() treat as blank.
Whitespace == {" ", "\n", "\t"}

Digits == {"0", "1", "2", "3", "4", "5", "6", "7", "8", "9"}

UpperCase == <<"A", "B", "C", "D", "E", "F", "G", "H", "I", "J", "K", "L", "M",
               "N", "O", "P", "Q", "R", "S", "T", "U", "V", "W", "X", "Y", "Z">>

LowerCase == <<"a", "b", "c", "d", "e", "f", "g", "h", "i", "j", "k", "l", "m",
               "n", "o", "p", "q", "r", "s", "t", "u", "v", "w", "x", "y", "z">>

\* The characters of the class \w, which decide where \b matches.
WordChars == {UpperCase[i] : i \in 1..26} \cup {LowerCase[i] : i \in 1..26}
                 \cup Digits \cup {"_"}

Min(S) == CHOOSE m \in S : \A k \in S : m <= k

Max(S) == CHOOSE m \in S : \A k \in S : m >= k

\* str.lower() of one character and of a string.
LowerChar(c) ==
    IF \E i \in 1..26 : UpperCase[i] = c
    THEN LowerCase[CHOOSE i \in 1..26 : UpperCase[i] = c]
    ELSE c

lower(s) == [i \in 1..Len(s) |-> LowerChar(s[i])]

\* The string w occurs in s at position p (1-based).
OccursAt(s, p, w) ==
    /\ p >= 1
    /\ p + Len(w) - 1 <= Len(s)
    /\ \A k \in 1..Len(w) : s[p + k - 1] = w[k]

\* Python's "w in s" for strings.
Contains(s, w) == \E p \in 1..(Len(s) + 1) : OccursAt(s, p, w)

\* The first position at or after p that holds a character outside the set C
\* (Len(s) + 1 when there is none): where a greedy run C* that starts at p ends.
RunEnd(s, p, C) ==
    LET stop == {k \in p..Len(s) : s[k] \notin C}
    IN  IF stop = {} THEN Len(s) + 1 ELSE Min(stop)

\* The first position at or after p that holds a newline (Len(s) + 1 when
\* there is none): where the line that contains p ends.
LineEnd(s, p) ==
    LET nl == {k \in p..Len(s) : s[k] = "\n"}
    IN  IF nl = {} THEN Len(s) + 1 ELSE Min(nl)

\* ^ under re.MULTILINE: the start of the string or just after a newline.
LineStart(s, p) == p = 1 \/ (p > 1 /\ p <= Len(s) + 1 /\ s[p - 1] = "\n")

\* \b at position p: exactly one of the characters around p is a word character.
WordBoundary(s, p) ==
    LET before == p > 1 /\ p - 1 <= Len(s) /\ s[p - 1] \in WordChars
        after  == p >= 1 /\ p <= Len(s) /\ s[p] \in WordChars
    IN  before # after

\* str.strip().
strip(s) ==
    LET keep == {k \in 1..Len(s) : s[k] \notin Whitespace}
    IN  IF keep = {} THEN <<>> ELSE SubSeq(s, Min(keep), Max(keep))

\* re.sub(pattern, repl, s) from position i on, for a pattern given by the
\* positions where it matches (starts), the position after each match (stop)
\* and what replaces it (repl): leftmost match first, matches do not overlap.
RECURSIVE SubFrom(_, _, _, _, _)
SubFrom(s, i, starts, stop, repl) ==
    LET ms == {j \in starts : j >= i}
    IN  IF ms = {}
        THEN SubSeq(s, i, Len(s))
        ELSE LET j == Min(ms)
             IN  SubSeq(s, i, j - 1) \o repl[j]
                     \o SubFrom(s, stop[j], starts, stop, repl)

----------------------------------------------------------------------------
(* WHIRAGSystem._ensure_markdown_format: four substitutions and a strip    *)

BulletMarkers == {"U+2022", "U+00B7", "*"}

\* The units of the numeric pattern, in the order of its alternation.
Units == << <<"g", "/", "d", "L">>, <<"m", "g", "/", "d", "L">>,
            <<"m", "m", "H", "g">>, <<"%">>, <<"y", "e", "a", "r", "s">>,
            <<"c", "a", "s", "e", "s">>, <<"p", "e", "o", "p", "l", "e">>,
            <<"i", "t", "e", "m", "s">> >>

\* ^#{1,6}\s*(.+)$ tried at position j: the position where group 1 starts, or 0
\* when the pattern does not match at j. The hashes and the blanks are taken
\* greedily and given back one at a time until (.+) finds a character that is
\* not a newline.
TitleGroupStart(s, j) ==
    IF ~(j <= Len(s) /\ LineStart(s, j) /\ s[j] = "#") THEN 0
    ELSE LET run    == RunEnd(s, j, {"#"}) - j
             hmax   == IF run < 6 THEN run ELSE 6
             p0     == j + hmax
             wsend  == RunEnd(s, p0, Whitespace)
             spaces == {p \in p0..Len(s) : s[p] # "\n"}
         IN  IF wsend <= Len(s) THEN wsend
             ELSE IF spaces # {} THEN Max(spaces)
             ELSE IF hmax >= 2 THEN p0 - 1
             ELSE 0

\* re.sub(r'^#{1,6}\s*(.+)$', lambda m: f"## {m.group(1).strip()}", answer,
\*        flags=re.MULTILINE)
standardize_titles(s) ==
    LET starts == {j \in 1..Len(s) : TitleGroupStart(s, j) # 0}
        stop   == [j \in starts |-> LineEnd(s, TitleGroupStart(s, j))]
        repl   == [j \in starts |->
                      <<"#", "#", " ">>
                          \o strip(SubSeq(s, TitleGroupStart(s, j), stop[j] - 1))]
    IN  SubFrom(s, 1, starts, stop, repl)

\* re.sub(r'^[•·*]\s*', '- ', answer, flags=re.MULTILINE)
standardize_lists(s) ==
    LET starts == {j \in 1..Len(s) : LineStart(s, j) /\ s[j] \in BulletMarkers}
        stop   == [j \in starts |-> RunEnd(s, j + 1, Whitespace)]
        repl   == [j \in starts |-> <<"-", " ">>]
    IN  SubFrom(s, 1, starts, stop, repl)

\* re.sub(r'\n{3,}', '\n\n', answer)
collapse_blank_lines(s) ==
    LET starts == {j \in 1..Len(s) :
                      /\ OccursAt(s, j, <<"\n", "\n", "\n">>)
                      /\ (j = 1 \/ s[j - 1] # "\n")}
        stop   == [j \in starts |-> RunEnd(s, j, {"\n"})]
        repl   == [j \in starts |-> <<"\n", "\n">>]
    IN  SubFrom(s, 1, starts, stop, repl)

\* \d+(?:\.\d+)?\s*(?:unit) tried at position j, for the units of the list
\* units: the position after the match, or 0 when it does not match at j.
NumericEnd(s, j, units) ==
    IF ~(j <= Len(s) /\ s[j] \in Digits) THEN 0
    ELSE LET d1   == RunEnd(s, j, Digits)
             frac == d1 + 1 <= Len(s) /\ s[d1] = "." /\ s[d1 + 1] \in Digits
             num  == IF frac THEN RunEnd(s, d1 + 1, Digits) ELSE d1
             u    == RunEnd(s, num, Whitespace)
             hits == {n \in 1..Len(units) : OccursAt(s, u, units[n])}
         IN  IF hits = {} THEN 0 ELSE u + Len(units[Min(hits)])

\* re.sub(r'(?<!\*)\b(\d+(?:\.\d+)?\s*(?:g/dL|mg/dL|mmHg|%|years|cases|people|items))(?!\*)',
\*        r'**\1**', answer)
bold_numeric_values(s) ==
    LET starts == {j \in 1..Len(s) :
                      /\ NumericEnd(s, j, Units) # 0
                      /\ (j = 1 \/ s[j - 1] # "*")
                      /\ WordBoundary(s, j)
                      /\ (NumericEnd(s, j, Units) > Len(s) \/ s[NumericEnd(s, j, Units)] # "*")}
        stop   == [j \in starts |-> NumericEnd(s, j, Units)]
        repl   == [j \in starts |->
                      <<"*", "*">> \o SubSeq(s, j, stop[j] - 1) \o <<"*", "*">>]
    IN  SubFrom(s, 1, starts, stop, repl)

_ensure_markdown_format(answer) ==
    strip(bold_numeric_values(collapse_blank_lines(
              standardize_lists(standardize_titles(answer)))))

----------------------------------------------------------------------------
(* WHIRAGSystem._generate_search_query                                     *)

\* The alternation of the medical-term pattern, in its order.
QueryTerms == << <<"h", "e", "m", "o", "g", "l", "o", "b", "i", "n">>,
                 <<"h", "g", "b">>, <<"b", "l", "o", "o", "d">>,
                 <<"p", "r", "e", "s", "s", "u", "r", "e">>,
                 <<"c", "h", "o", "l", "e", "s", "t", "e", "r", "o", "l">>,
                 <<"b", "m", "i">>, <<"w", "e", "i", "g", "h", "t">>,
                 <<"h", "e", "i", "g", "h", "t">>, <<"m", "e", "s", "a">>,
                 <<"w", "h", "i">> >>

\* The units of the numeric pattern of the query, in the order of its alternation.
QueryUnits == << <<"g", "/", "d", "L">>, <<"m", "g", "/", "d", "L">>,
                 <<"m", "m", "H", "g">>, <<"%">>, <<"y", "e", "a", "r", "s">> >>

\* re.findall for a pattern without groups, from position i on: the matched
\* substrings in order of occurrence.
RECURSIVE FindAllFrom(_, _, _, _)
FindAllFrom(s, i, starts, stop) ==
    LET ms == {j \in starts : j >= i}
    IN  IF ms = {}
        THEN <<>>
        ELSE LET j == Min(ms)
             IN  <<SubSeq(s, j, stop[j] - 1)>> \o FindAllFrom(s, stop[j], starts, stop)

\* ' '.join(parts)
RECURSIVE JoinWithSpace(_)
JoinWithSpace(parts) ==
    IF parts = <<>> THEN <<>>
    ELSE IF Len(parts) = 1 THEN parts[1]
    ELSE parts[1] \o <<" ">> \o JoinWithSpace(Tail(parts))

\* \b(?:hemoglobin|...|whi)\b tried at position j: the position after the
\* match, or 0 when it does not match at j.
MedicalTermEnd(s, j) ==
    LET hits == {n \in 1..Len(QueryTerms) :
                    /\ OccursAt(s, j, QueryTerms[n])
                    /\ WordBoundary(s, j + Len(QueryTerms[n]))}
    IN  IF WordBoundary(s, j) /\ hits # {}
        THEN j + Len(QueryTerms[Min(hits)])
        ELSE 0

\* re.findall(r'\b(?:hemoglobin|hgb|blood|pressure|cholesterol|bmi|weight|height|mesa|whi)\b',
\*            question.lower())
\* s is question.lower(), computed once.
medical_terms(question) ==
    LET Matches(s) ==
            LET starts == {j \in 1..Len(s) : MedicalTermEnd(s, j) # 0}
                stop   == [j \in starts |-> MedicalTermEnd(s, j)]
            IN  FindAllFrom(s, 1, starts, stop)
    IN  CHOOSE found \in {Matches(s) : s \in {lower(question)}} : TRUE

\* re.findall(r'\b\d+(?:\.\d+)?\s*(?:g/dL|mg/dL|mmHg|%|years)\b', question.lower())
numeric_terms(question) ==
    LET Matches(s) ==
            LET starts == {j \in 1..Len(s) :
                              /\ NumericEnd(s, j, QueryUnits) # 0
                              /\ WordBoundary(s, j)
                              /\ WordBoundary(s, NumericEnd(s, j, QueryUnits))}
                stop   == [j \in starts |-> NumericEnd(s, j, QueryUnits)]
            IN  FindAllFrom(s, 1, starts, stop)
    IN  CHOOSE found \in {Matches(s) : s \in {lower(question)}} : TRUE

\* The numeric terms put before the medical terms.
NumericTermsFirst(question, question_type) ==
    LET search_terms == numeric_terms(question) \o medical_terms(question)
    IN  IF search_terms # <<>>
        THEN JoinWithSpace(search_terms)
        ELSE question

_generate_search_query(question, question_type) ==
    LET search_terms == medical_terms(question) \o numeric_terms(question)
    IN  IF search_terms # <<>>
        THEN JoinWithSpace(search_terms)
        ELSE question

----------------------------------------------------------------------------
(* WHIRAGSystem._enhanced_context_analysis: the keyword heuristic          *)

medical_keywords == << <<"h", "e", "m", "o", "g", "l", "o", "b", "i", "n">>,
                       <<"h", "g", "b">>, <<"b", "l", "o", "o", "d">>,
                       <<"p", "r", "e", "s", "s", "u", "r", "e">>,
                       <<"c", "h", "o", "l", "e", "s", "t", "e", "r", "o", "l">>,
                       <<"b", "m", "i">>, <<"w", "e", "i", "g", "h", "t">>,
                       <<"h", "e", "i", "g", "h", "t">> >>

dataset_keywords == << <<"m", "e", "s", "a">>, <<"w", "h", "i">>,
                       <<"f", "o", "r", "m">>,
                       <<"d", "a", "t", "a", "s", "e", "t">>,
                       <<"s", "t", "u", "d", "y">>,
                       <<"v", "a", "r", "i", "a", "b", "l", "e">> >>

\* set(s.split()): the maximal runs of characters that are not blank.
SplitWords(s) ==
    {SubSeq(s, a, RunEnd(s, a, {s[k] : k \in 1..Len(s)} \ Whitespace) - 1) :
        a \in {k \in 1..Len(s) :
                  s[k] \notin Whitespace /\ (k = 1 \/ s[k - 1] \in Whitespace)}}

\* dict.get(key, default)
Get(d, key, default) == IF key \in DOMAIN d THEN d[key] ELSE default

\* A test that takes one shared word for enough.
SharesAWord(question, item) ==
    SplitWords(lower(question))
        \cap SplitWords(lower(Get(item, "question", <<>>))) # {}

\* The test of the loop body for one history entry: lexical overlap of more
\* than one word, or a keyword of either list in both questions.
IsRelatedEntry(question, item) ==
    LET question_lower  == lower(question)
        hist_question   == lower(Get(item, "question", <<>>))
        overlap         == Cardinality(SplitWords(question_lower)
                                           \cap SplitWords(hist_question))
        medical_overlap == \E n \in 1..Len(medical_keywords) :
                               /\ Contains(question_lower, medical_keywords[n])
                               /\ Contains(hist_question, medical_keywords[n])
        dataset_overlap == \E n \in 1..Len(dataset_keywords) :
                               /\ Contains(question_lower, dataset_keywords[n])
                               /\ Contains(hist_question, dataset_keywords[n])
    IN  overlap > 1 \/ medical_overlap \/ dataset_overlap

----------------------------------------------------------------------------
(* Python values                                                           *)

\* A value with its Python type, for the places where the code handles
\* whatever a decoded model payload holds.
PyStr(s)   == [t |-> "str", v |-> s]
PyBool(b)  == [t |-> "bool", v |-> b]
PyInt(n)   == [t |-> "int", v |-> n]
PyList(l)  == [t |-> "list", v |-> l]
PyDict(d)  == [t |-> "dict", v |-> d]
PyNone     == [t |-> "NoneType"]

\* The empty dict, {}.
EmptyDict == [k \in {} |-> {}]

\* bool(x)
Truthy(x) ==
    CASE x.t = "str"  -> x.v # <<>>
      [] x.t = "bool" -> x.v
      [] x.t = "int"  -> x.v # 0
      [] x.t = "list" -> x.v # <<>>
      [] x.t = "dict" -> DOMAIN x.v # {}
      [] OTHER        -> FALSE

DigitChars == <<"0", "1", "2", "3", "4", "5", "6", "7", "8", "9">>

\* str(n) for an integer n >= 0.
RECURSIVE IntToStr(_)
IntToStr(n) ==
    IF n < 10 THEN <<DigitChars[n + 1]>>
    ELSE IntToStr(n \div 10) \o <<DigitChars[(n % 10) + 1]>>

\* f"{x:.2f}" for a score x kept in hundredths.
FormatScore(h) ==
    IntToStr(h \div 100) \o <<".">>
        \o <<DigitChars[((h % 100) \div 10) + 1], DigitChars[(h % 10) + 1]>>

----------------------------------------------------------------------------
(* The string literals of rag/system.py, llm/qwen_client.py and            *)
(* vector_store/manager.py                                                 *)

\* "Starting combined context analysis and question classification"
StartingAnalysisStep ==
    <<"S", "t", "a", "r", "t", "i", "n", "g", " ", "c", "o", "m", "b", "i",
      "n", "e", "d", " ", "c", "o", "n", "t", "e", "x", "t", " ", "a", "n",
      "a", "l", "y", "s", "i", "s", " ", "a", "n", "d", " ", "q", "u", "e",
      "s", "t", "i", "o", "n", " ", "c", "l", "a", "s", "s", "i", "f", "i",
      "c", "a", "t", "i", "o", "n">>

\* "Combined context analysis and question classification completed"
AnalysisCompletedStep ==
    <<"C", "o", "m", "b", "i", "n", "e", "d", " ", "c", "o", "n", "t", "e",
      "x", "t", " ", "a", "n", "a", "l", "y", "s", "i", "s", " ", "a", "n",
      "d", " ", "q", "u", "e", "s", "t", "i", "o", "n", " ", "c", "l", "a",
      "s", "s", "i", "f", "i", "c", "a", "t", "i", "o", "n", " ", "c", "o",
      "m", "p", "l", "e", "t", "e", "d">>

\* "Combined analysis failed: "
AnalysisFailedPrefix ==
    <<"C", "o", "m", "b", "i", "n", "e", "d", " ", "a", "n", "a", "l", "y",
      "s", "i", "s", " ", "f", "a", "i", "l", "e", "d", ":", " ">>

\* "Analysis failed"
AnalysisFailedSummary ==
    <<"A", "n", "a", "l", "y", "s", "i", "s", " ", "f", "a", "i", "l", "e",
      "d">>

\* "Starting document retrieval"
StartingRetrievalStep ==
    <<"S", "t", "a", "r", "t", "i", "n", "g", " ", "d", "o", "c", "u", "m",
      "e", "n", "t", " ", "r", "e", "t", "r", "i", "e", "v", "a", "l">>

\* "Generated search query: "
SearchQueryPrefix ==
    <<"G", "e", "n", "e", "r", "a", "t", "e", "d", " ", "s", "e", "a", "r",
      "c", "h", " ", "q", "u", "e", "r", "y", ":", " ">>

\* "Retrieved "
RetrievedPrefix == <<"R", "e", "t", "r", "i", "e", "v", "e", "d", " ">>

\* " relevant documents"
RetrievedSuffix ==
    <<" ", "r", "e", "l", "e", "v", "a", "n", "t", " ", "d", "o", "c", "u",
      "m", "e", "n", "t", "s">>

\* "Document retrieval failed: "
RetrievalFailedPrefix ==
    <<"D", "o", "c", "u", "m", "e", "n", "t", " ", "r", "e", "t", "r", "i",
      "e", "v", "a", "l", " ", "f", "a", "i", "l", "e", "d", ":", " ">>

\* "Starting combined answer generation and summarization"
StartingGenerationStep ==
    <<"S", "t", "a", "r", "t", "i", "n", "g", " ", "c", "o", "m", "b", "i",
      "n", "e", "d", " ", "a", "n", "s", "w", "e", "r", " ", "g", "e", "n",
      "e", "r", "a", "t", "i", "o", "n", " ", "a", "n", "d", " ", "s", "u",
      "m", "m", "a", "r", "i", "z", "a", "t", "i", "o", "n">>

\* "Combined answer generation and summarization completed"
GenerationCompletedStep ==
    <<"C", "o", "m", "b", "i", "n", "e", "d", " ", "a", "n", "s", "w", "e",
      "r", " ", "g", "e", "n", "e", "r", "a", "t", "i", "o", "n", " ", "a",
      "n", "d", " ", "s", "u", "m", "m", "a", "r", "i", "z", "a", "t", "i",
      "o", "n", " ", "c", "o", "m", "p", "l", "e", "t", "e", "d">>

\* "Combined answer generation failed: "
GenerationFailedPrefix ==
    <<"C", "o", "m", "b", "i", "n", "e", "d", " ", "a", "n", "s", "w", "e",
      "r", " ", "g", "e", "n", "e", "r", "a", "t", "i", "o", "n", " ", "f",
      "a", "i", "l", "e", "d", ":", " ">>

\* "Sorry, an error occurred while generating the answer."
GenerationFailedAnswer ==
    <<"S", "o", "r", "r", "y", ",", " ", "a", "n", " ", "e", "r", "r", "o",
      "r", " ", "o", "c", "c", "u", "r", "r", "e", "d", " ", "w", "h", "i",
      "l", "e", " ", "g", "e", "n", "e", "r", "a", "t", "i", "n", "g", " ",
      "t", "h", "e", " ", "a", "n", "s", "w", "e", "r", ".">>

\* "Unable to process your question at this time."
GenerationFailedSummary ==
    <<"U", "n", "a", "b", "l", "e", " ", "t", "o", " ", "p", "r", "o", "c",
      "e", "s", "s", " ", "y", "o", "u", "r", " ", "q", "u", "e", "s", "t",
      "i", "o", "n", " ", "a", "t", " ", "t", "h", "i", "s", " ", "t", "i",
      "m", "e", ".">>

\* "Starting answer validation"
StartingValidationStep ==
    <<"S", "t", "a", "r", "t", "i", "n", "g", " ", "a", "n", "s", "w", "e",
      "r", " ", "v", "a", "l", "i", "d", "a", "t", "i", "o", "n">>

\* "Answer validation completed, confidence: "
ValidationCompletedPrefix ==
    <<"A", "n", "s", "w", "e", "r", " ", "v", "a", "l", "i", "d", "a", "t",
      "i", "o", "n", " ", "c", "o", "m", "p", "l", "e", "t", "e", "d", ",",
      " ", "c", "o", "n", "f", "i", "d", "e", "n", "c", "e", ":", " ">>

\* "Answer validation failed: "
ValidationFailedPrefix ==
    <<"A", "n", "s", "w", "e", "r", " ", "v", "a", "l", "i", "d", "a", "t",
      "i", "o", "n", " ", "f", "a", "i", "l", "e", "d", ":", " ">>

\* "Question processing failed: "
ProcessingFailedPrefix ==
    <<"Q", "u", "e", "s", "t", "i", "o", "n", " ", "p", "r", "o", "c", "e",
      "s", "s", "i", "n", "g", " ", "f", "a", "i", "l", "e", "d", ":", " ">>

\* "Sorry, an error occurred while processing your question."
ProcessingFailedAnswer ==
    <<"S", "o", "r", "r", "y", ",", " ", "a", "n", " ", "e", "r", "r", "o",
      "r", " ", "o", "c", "c", "u", "r", "r", "e", "d", " ", "w", "h", "i",
      "l", "e", " ", "p", "r", "o", "c", "e", "s", "s", "i", "n", "g", " ",
      "y", "o", "u", "r", " ", "q", "u", "e", "s", "t", "i", "o", "n", ".">>

\* "The system is temporarily unable to process your question. Please try again later."
ProcessingFailedSummary ==
    <<"T", "h", "e", " ", "s", "y", "s", "t", "e", "m", " ", "i", "s", " ",
      "t", "e", "m", "p", "o", "r", "a", "r", "i", "l", "y", " ", "u", "n",
      "a", "b", "l", "e", " ", "t", "o", " ", "p", "r", "o", "c", "e", "s",
      "s", " ", "y", "o", "u", "r", " ", "q", "u", "e", "s", "t", "i", "o",
      "n", ".", " ", "P", "l", "e", "a", "s", "e", " ", "t", "r", "y", " ",
      "a", "g", "a", "i", "n", " ", "l", "a", "t", "e", "r", ".">>

\* "Error: "
ErrorStepPrefix == <<"E", "r", "r", "o", "r", ":", " ">>

\* "No relevant information found."
NoRelevantInformation ==
    <<"N", "o", " ", "r", "e", "l", "e", "v", "a", "n", "t", " ", "i", "n",
      "f", "o", "r", "m", "a", "t", "i", "o", "n", " ", "f", "o", "u", "n",
      "d", ".">>

\* "Information "
InformationPrefix ==
    <<"I", "n", "f", "o", "r", "m", "a", "t", "i", "o", "n", " ">>

\* "Found "
FoundPrefix == <<"F", "o", "u", "n", "d", " ">>

\* " related historical conversations"
FoundSuffix ==
    <<" ", "r", "e", "l", "a", "t", "e", "d", " ", "h", "i", "s", "t", "o",
      "r", "i", "c", "a", "l", " ", "c", "o", "n", "v", "e", "r", "s", "a",
      "t", "i", "o", "n", "s">>

\* "No related historical conversations"
NoRelatedConversations ==
    <<"N", "o", " ", "r", "e", "l", "a", "t", "e", "d", " ", "h", "i", "s",
      "t", "o", "r", "i", "c", "a", "l", " ", "c", "o", "n", "v", "e", "r",
      "s", "a", "t", "i", "o", "n", "s">>

\* "Enhanced analysis based on keyword matching and medical term recognition"
HeuristicReasoning ==
    <<"E", "n", "h", "a", "n", "c", "e", "d", " ", "a", "n", "a", "l", "y",
      "s", "i", "s", " ", "b", "a", "s", "e", "d", " ", "o", "n", " ", "k",
      "e", "y", "w", "o", "r", "d", " ", "m", "a", "t", "c", "h", "i", "n",
      "g", " ", "a", "n", "d", " ", "m", "e", "d", "i", "c", "a", "l", " ",
      "t", "e", "r", "m", " ", "r", "e", "c", "o", "g", "n", "i", "t", "i",
      "o", "n">>

\* "No historical conversation context"
NoHistoricalContext ==
    <<"N", "o", " ", "h", "i", "s", "t", "o", "r", "i", "c", "a", "l", " ",
      "c", "o", "n", "v", "e", "r", "s", "a", "t", "i", "o", "n", " ", "c",
      "o", "n", "t", "e", "x", "t">>

\* "LLM call failed: "
LLMCallFailedPrefix ==
    <<"L", "L", "M", " ", "c", "a", "l", "l", " ", "f", "a", "i", "l", "e",
      "d", ":", " ">>

\* "Vector store not initialized"
VectorStoreNotInitialized ==
    <<"V", "e", "c", "t", "o", "r", " ", "s", "t", "o", "r", "e", " ", "n",
      "o", "t", " ", "i", "n", "i", "t", "i", "a", "l", "i", "z", "e", "d">>

\* "general"
general == <<"g", "e", "n", "e", "r", "a", "l">>

\* "variable"
variable == <<"v", "a", "r", "i", "a", "b", "l", "e">>

\* "dataset"
dataset == <<"d", "a", "t", "a", "s", "e", "t">>

\* "unknown"
unknown == <<"u", "n", "k", "n", "o", "w", "n">>

\* "N/A"
NotAvailable == <<"N", "/", "A">>

----------------------------------------------------------------------------
(* The graph state and the workflow engine (graph/state.py, _build_workflow) *)

\* The keys of WHIRAGState: the channels of StateGraph(WHIRAGState).
WHIRAGState ==
    {"question", "conversation_history", "context_summary",
     "related_previous_qa", "question_type", "search_query",
     "retrieved_documents", "context", "answer", "summary_answer",
     "confidence_score", "sources", "processing_steps", "error"}

\* The nodes in the order of the edges: entry point, three edges, then END.
Nodes == <<"analyze_context_and_classify", "retrieve_documents",
           "generate_and_summarize_answer", "validate_answer">>

\* A graph whose every edge leads back to the node it leaves.
Repeat(n) == n

\* A graph whose every edge leads to END.
EndAfter(n) == "END"

\* The node the edge out of node n leads to ("END" after the last node).
NextNode(n) ==
    LET i == CHOOSE k \in 1..Len(Nodes) : Nodes[k] = n
    IN  IF i < Len(Nodes) THEN Nodes[i + 1] ELSE "END"

\* A channel write that keeps the first value written to processing_steps.
KeepFirstSteps(state, update) ==
    [k \in DOMAIN state \cup (DOMAIN update \cap WHIRAGState) |->
        IF k \in DOMAIN update
           /\ (k # "processing_steps" \/ k \notin DOMAIN state)
        THEN update[k] ELSE state[k]]

\* A dict written to the channels (the input of invoke, or what a node
\* returned): each key that is a channel takes the value written, a key that
\* is no channel is not written, and a channel that was never written stays
\* absent from the state and from the dict that invoke returns.
ApplyUpdate(state, update) ==
    [k \in DOMAIN state \cup (DOMAIN update \cap WHIRAGState) |->
        IF k \in DOMAIN update THEN update[k] ELSE state[k]]

----------------------------------------------------------------------------
(* Model gateway (QwenLLMClient.generate_response) and payload decoding    *)

\* What a chat completion can do: fail with a message, or deliver a content
\* string. For a content string, json is what json.loads returns for it once
\* the code has taken it out of its code fence: a typed value, or
\* JSONDecodeError.
JSONDecodeError == [t |-> "JSONDecodeError"]

\* generate_response: the content, or Exception("LLM call failed: ...").
\* [raised |-> TRUE, message |-> str(e)] stands for the raised exception.
generate_response(completion) ==
    IF completion.kind = "error"
    THEN [raised |-> TRUE, message |-> LLMCallFailedPrefix \o completion.message]
    ELSE [raised |-> FALSE, content |-> completion.content, json |-> completion.json]

\* The opening fence of a JSON block: three backticks and "json".
JsonFence == <<"U+0060", "U+0060", "U+0060", "j", "s", "o", "n">>

\* A fence: three backticks.
Fence == <<"U+0060", "U+0060", "U+0060">>

\* The first position at or after p where w occurs in s, Len(s) + 1 if none.
FirstOccurrence(s, p, w) ==
    LET at == {k \in p..Len(s) : OccursAt(s, k, w)}
    IN  IF at = {} THEN Len(s) + 1 ELSE Min(at)

\* if JsonFence in r: r = r.split(JsonFence)[1].split(Fence)[0].strip()
\* elif Fence in r:   r = r.split(Fence)[1].strip()
CleanFence(r) ==
    IF Contains(r, JsonFence)
    THEN LET a == FirstOccurrence(r, 1, JsonFence) + Len(JsonFence)
         IN  strip(SubSeq(r, a, FirstOccurrence(r, a, Fence) - 1))
    ELSE IF Contains(r, Fence)
    THEN LET a == FirstOccurrence(r, 1, Fence) + Len(Fence)
         IN  strip(SubSeq(r, a, FirstOccurrence(r, a, Fence) - 1))
    ELSE r

\* Messages of the exceptions the nodes can meet on a malformed payload.
\* AttributeError: "'<type>' object has no attribute 'get'", after the type
NoAttributeGet ==
    <<"'", " ", "o", "b", "j", "e", "c", "t", " ", "h", "a", "s", " ", "n",
      "o", " ", "a", "t", "t", "r", "i", "b", "u", "t", "e", " ", "'", "g",
      "e", "t", "'">>

\* TypeError: "'<type>' object is not iterable", after the type
NotIterable ==
    <<"'", " ", "o", "b", "j", "e", "c", "t", " ", "i", "s", " ", "n", "o",
      "t", " ", "i", "t", "e", "r", "a", "b", "l", "e">>

\* TypeError: "'<=' not supported between instances of 'int' and '<type>'", before the type
NotComparable ==
    <<"'", "<", "=", "'", " ", "n", "o", "t", " ", "s", "u", "p", "p", "o",
      "r", "t", "e", "d", " ", "b", "e", "t", "w", "e", "e", "n", " ", "i",
      "n", "s", "t", "a", "n", "c", "e", "s", " ", "o", "f", " ", "'", "i",
      "n", "t", "'", " ", "a", "n", "d", " ", "'">>

\* TypeError of re.sub: "expected string or bytes-like object"
ExpectedString ==
    <<"e", "x", "p", "e", "c", "t", "e", "d", " ", "s", "t", "r", "i", "n",
      "g", " ", "o", "r", " ", "b", "y", "t", "e", "s", "-", "l", "i", "k",
      "e", " ", "o", "b", "j", "e", "c", "t">>


\* type(x).__name__
TypeName(x) ==
    CASE x.t = "str"      -> <<"s", "t", "r">>
      [] x.t = "bool"     -> <<"b", "o", "o", "l">>
      [] x.t = "int"      -> <<"i", "n", "t">>
      [] x.t = "list"     -> <<"l", "i", "s", "t">>
      [] x.t = "dict"     -> <<"d", "i", "c", "t">>
      [] OTHER            -> <<"N", "o", "n", "e", "T", "y", "p", "e">>

\* str(e) for the AttributeError of x.get when x is no dict.
AttributeErrorMessage(x) == <<"'">> \o TypeName(x) \o NoAttributeGet

\* str(KeyError(key))
KeyErrorMessage(key) == <<"'">> \o key \o <<"'">>

No == [raised |-> FALSE]

Raise(message) == [raised |-> TRUE, message |-> message]

----------------------------------------------------------------------------
(* Node 1: WHIRAGSystem._analyze_context_and_classify                      *)

RECURSIVE ConcatAll(_)
ConcatAll(parts) ==
    IF parts = <<>> THEN <<>> ELSE parts[1] \o ConcatAll(Tail(parts))

\* for i, item in enumerate(history[-5:], 1):
\*     formatted += f"{i}. Q: {item.get('question', '')}\n   A: {item.get('answer', '')}\n\n"
_format_history_for_analysis(history) ==
    LET shown == SubSeq(history,
                        IF Len(history) > 5 THEN Len(history) - 4 ELSE 1,
                        Len(history))
    IN  ConcatAll([i \in 1..Len(shown) |->
            IntToStr(i) \o <<".", " ", "Q", ":", " ">>
                \o Get(shown[i], "question", <<>>)
                \o <<"\n", " ", " ", " ", "A", ":", " ">>
                \o Get(shown[i], "answer", <<>>) \o <<"\n", "\n">>])

\* "No historical conversation context available."
NoContextAvailable ==
    <<"N", "o", " ", "h", "i", "s", "t", "o", "r", "i", "c", "a", "l", " ",
      "c", "o", "n", "v", "e", "r", "s", "a", "t", "i", "o", "n", " ", "c",
      "o", "n", "t", "e", "x", "t", " ", "a", "v", "a", "i", "l", "a", "b",
      "l", "e", ".">>

\* "Historical conversations:\n"
HistoricalConversations ==
    <<"H", "i", "s", "t", "o", "r", "i", "c", "a", "l", " ", "c", "o", "n",
      "v", "e", "r", "s", "a", "t", "i", "o", "n", "s", ":", "\n">>

\* The part of the prompt of the first model call that depends on the state.
AnalysisPrompt(question, history) ==
    [question     |-> question,
     context_info |-> IF history = <<>>
                      THEN NoContextAvailable
                      ELSE HistoricalConversations
                               \o _format_history_for_analysis(history)]

\* The keyword heuristic over the whole history; indices count from 0.
_enhanced_context_analysis(question, history) ==
    LET related == {i \in 0..(Len(history) - 1) :
                       IsRelatedEntry(question, history[i + 1])}
        related_indices ==
            [k \in 1..Cardinality(related) |->
                PyInt(CHOOSE i \in related :
                          Cardinality({j \in related : j < i}) = k - 1)]
    IN  [is_related         |-> PyBool(related # {}),
         context_summary    |-> PyStr(IF related # {}
                                      THEN FoundPrefix
                                               \o IntToStr(Cardinality(related))
                                               \o FoundSuffix
                                      ELSE NoRelatedConversations),
         related_qa_indices |-> PyList(related_indices),
         reasoning          |-> PyStr(HeuristicReasoning)]

\* idx as a number (True and False are the integers 1 and 0).
IndexValue(idx) == IF idx.t = "bool" THEN (IF idx.v THEN 1 ELSE 0) ELSE idx.v

\* 0 <= idx < len(history), for an idx that can be compared.
InRange(idx, history) == 0 <= IndexValue(idx) /\ IndexValue(idx) < Len(history)

\* The exception, if any, of
\*     for idx in context_analysis.get("related_qa_indices", []):
\*         if 0 <= idx < len(history):
\*             related_qa.append({"question": history[idx]["question"],
\*                                "answer": history[idx]["answer"]})
RelatedQAException(indices, history) ==
    LET Bad(k) ==
            \/ indices.v[k].t \notin {"int", "bool"}
            \/ /\ InRange(indices.v[k], history)
               /\ {"question", "answer"}
                      \ DOMAIN history[IndexValue(indices.v[k]) + 1] # {}
        bad == {k \in 1..Len(indices.v) : Bad(k)}
        x   == indices.v[Min(bad)]
    IN  CASE indices.t \in {"int", "bool", "NoneType"} ->
                 Raise(<<"'">> \o TypeName(indices) \o NotIterable)
          [] indices.t = "str" ->
                 IF indices.v = <<>> THEN No
                 ELSE Raise(NotComparable \o <<"s", "t", "r", "'">>)
          [] indices.t = "dict" ->
                 IF DOMAIN indices.v = {} THEN No
                 ELSE Raise(NotComparable \o <<"s", "t", "r", "'">>)
          [] OTHER ->
                 IF bad = {} THEN No
                 ELSE IF x.t \notin {"int", "bool"}
                 THEN Raise(NotComparable \o TypeName(x) \o <<"'">>)
                 ELSE IF "question" \notin DOMAIN history[IndexValue(x) + 1]
                 THEN Raise(KeyErrorMessage(<<"q", "u", "e", "s", "t", "i", "o", "n">>))
                 ELSE Raise(KeyErrorMessage(<<"a", "n", "s", "w", "e", "r">>))

\* The exception, if any, of lines 197-219, which follow the decoding.
AnalysisException(context_analysis, question_classification, history) ==
    IF context_analysis.t # "dict"
    THEN Raise(AttributeErrorMessage(context_analysis))
    ELSE LET is_related == Get(context_analysis.v, "is_related", PyBool(FALSE))
             indices    == Get(context_analysis.v, "related_qa_indices", PyList(<<>>))
             loop       == IF Truthy(is_related)
                           THEN RelatedQAException(indices, history)
                           ELSE No
         IN  IF loop.raised THEN loop
             ELSE IF question_classification.t # "dict"
             THEN Raise(AttributeErrorMessage(question_classification))
             ELSE No

\* related_qa of lines 198-205, when the loop raises nothing.
RelatedQA(context_analysis, history) ==
    LET indices == Get(context_analysis.v, "related_qa_indices", PyList(<<>>))
        chosen  == IF indices.t = "list"
                   THEN SelectSeq(indices.v, LAMBDA idx : InRange(idx, history))
                   ELSE <<>>
    IN  IF Truthy(Get(context_analysis.v, "is_related", PyBool(FALSE)))
        THEN [k \in 1..Len(chosen) |->
                 [question |-> history[IndexValue(chosen[k]) + 1]["question"],
                  answer   |-> history[IndexValue(chosen[k]) + 1]["answer"]]]
        ELSE <<>>

\* The type the payload names, taken as it comes.
UncheckedType(question_classification) ==
    Get(question_classification.v, "question_type", PyStr(general)).v

\* question_type of lines 207-209.
ClassifiedType(question_classification) ==
    LET question_type == Get(question_classification.v, "question_type", PyStr(general))
    IN  IF question_type.t = "str" /\ question_type.v \in {variable, dataset, general}
        THEN question_type.v
        ELSE general

\* The node: what it returns for the state it is given and for what the model
\* call does. A failed call, a payload that does not decode and a payload
\* that is no JSON object (result.get raises AttributeError inside the inner
\* try) all take the keyword heuristic and the type general; the
\* classification_reasoning of the two fallbacks is never read and is left
\* out. An exception of the later lines takes the outer except branch.
_analyze_context_and_classify(state, completion) ==
    LET question         == state["question"]
        history          == Get(state, "conversation_history", <<>>)
        processing_steps == Append(Get(state, "processing_steps", <<>>),
                                   StartingAnalysisStep)
        response         == generate_response(completion)
        fallback         == response.raised \/ response.json.t # "dict"
        context_analysis ==
            IF fallback
            THEN PyDict(_enhanced_context_analysis(question, history))
            ELSE Get(response.json.v, "context_analysis", PyDict(EmptyDict))
        question_classification ==
            IF fallback
            THEN PyDict([question_type |-> PyStr(general)])
            ELSE Get(response.json.v, "question_classification", PyDict(EmptyDict))
        e == AnalysisException(context_analysis, question_classification, history)
    IN  IF e.raised
        THEN [context_summary     |-> PyStr(AnalysisFailedSummary),
              related_previous_qa |-> <<>>,
              is_context_related  |-> PyBool(FALSE),
              question_type       |-> general,
              error               |-> AnalysisFailedPrefix \o e.message,
              processing_steps    |->
                  Append(processing_steps, AnalysisFailedPrefix \o e.message)]
        ELSE [context_summary     |->
                  Get(context_analysis.v, "context_summary", PyStr(<<>>)),
              related_previous_qa |-> RelatedQA(context_analysis, history),
              is_context_related  |->
                  Get(context_analysis.v, "is_related", PyBool(FALSE)),
              question_type       |-> ClassifiedType(question_classification),
              processing_steps    |->
                  Append(processing_steps, AnalysisCompletedStep)]

----------------------------------------------------------------------------
(* WHIVectorStoreManager                                                   *)

VARIABLES
    vector_store,        \* vector_manager.vector_store: "None" as the
                         \* constructor leaves it, or the index, "loaded" from
                         \* the disk or "built" from the documents
    index_builds         \* history: the calls of create_vector_store

\* What FAISS.load_local finds at VECTOR_STORE_PATH.
OnDisk == {"index", "missing", "corrupt"}

\* load_vector_store (lines 24-34): the index read from the disk is kept and
\* True is returned; whatever load_local raises is caught by the bare except
\* and False is returned, the index left as it was.
load_vector_store(index, on_disk) ==
    IF on_disk = "index"
    THEN [returned |-> TRUE,  vector_store |-> "loaded"]
    ELSE [returned |-> FALSE, vector_store |-> index]

\* A build that keeps no index.
KeepNoIndex(documents) == "None"

\* FAISS.from_documents(documents, self.embeddings), line 20.
from_documents(documents) == "built"

\* create_vector_store (lines 16-22): the index is built from the documents
\* and saved. building is what from_documents does, saving what save_local
\* does: "ok", or "raises".
create_vector_store(index, documents, building, saving) ==
    IF building = "raises"
    THEN [raised |-> TRUE, vector_store |-> index]
    ELSE [raised |-> saving = "raises",
          vector_store |-> from_documents(documents)]

\* 'search failed'
SearchFailed ==
    <<"s", "e", "a", "r", "c", "h", " ", "f", "a", "i", "l", "e", "d">>

----------------------------------------------------------------------------
(* Node 2: WHIRAGSystem._retrieve_documents                                *)

\* WHIConfig.RETRIEVAL_K
RETRIEVAL_K == 5

\* vector_manager.similarity_search(search_query, k=RETRIEVAL_K): the
\* documents the index returns, or the exception it raises. What the index
\* holds and how close a document is to the query are not modelled: search
\* is any of the outcomes the environment offers. Without an index the call
\* raises at line 44.
similarity_search(search) ==
    IF vector_store = "None"
    THEN Raise(VectorStoreNotInitialized)
    ELSE IF search.kind = "error"
         THEN Raise(search.message)
         ELSE [raised |-> FALSE, documents |-> search.documents]

_retrieve_documents(state, search) ==
    LET question      == state["question"]
        question_type == Get(state, "question_type", general)
        search_query  == _generate_search_query(question, question_type)
        processing_steps ==
            Append(Append(Get(state, "processing_steps", <<>>),
                          StartingRetrievalStep),
                   SearchQueryPrefix \o search_query)
        found         == similarity_search(search)
    IN  IF found.raised
        THEN [error               |-> RetrievalFailedPrefix \o found.message,
              retrieved_documents |-> <<>>,
              processing_steps    |->
                  Append(processing_steps, RetrievalFailedPrefix \o found.message)]
        ELSE [search_query        |-> search_query,
              retrieved_documents |-> found.documents,
              processing_steps    |->
                  Append(processing_steps,
                         RetrievedPrefix \o IntToStr(Len(found.documents))
                             \o RetrievedSuffix)]

----------------------------------------------------------------------------
(* Node 3: WHIRAGSystem._generate_and_summarize_answer                     *)

\* "No relevant information found." or, for each document,
\* f"Information {i}:\n{doc.page_content}\n" joined by "\n".
_build_context(documents) ==
    IF documents = <<>> THEN NoRelevantInformation
    ELSE ConcatAll([i \in 1..Len(documents) |->
             (IF i > 1 THEN <<"\n">> ELSE <<>>)
                 \o InformationPrefix \o IntToStr(i) \o <<":", "\n">>
                 \o documents[i].page_content \o <<"\n">>])

\* The sources of the first document only.
FirstSourceOnly(documents) ==
    IF documents = <<>> THEN <<>>
    ELSE <<[type |-> Get(documents[1].metadata, "type", unknown)]>>

_extract_sources(documents) ==
    [i \in 1..Len(documents) |->
        [type          |-> Get(documents[i].metadata, "type", unknown),
         dataset_name  |-> Get(documents[i].metadata, "dataset_name", NotAvailable),
         variable_name |-> Get(documents[i].metadata, "variable_name", NotAvailable),
         study         |-> Get(documents[i].metadata, "study", NotAvailable)]]

\* ' '.join(lines[:3]) if len(lines) >= 3 else combined_response[:200],
\* for lines = combined_response.split('\n')
FallbackSummary(r) ==
    LET nl == {k \in 1..Len(r) : r[k] = "\n"}
        n1 == Min(nl)
        n2 == Min(nl \ {n1})
        n3 == IF nl \ {n1, n2} = {} THEN Len(r) + 1 ELSE Min(nl \ {n1, n2})
    IN  IF Cardinality(nl) >= 2
        THEN [k \in 1..(n3 - 1) |-> IF k \in {n1, n2} THEN " " ELSE r[k]]
        ELSE SubSeq(r, 1, IF Len(r) < 200 THEN Len(r) ELSE 200)

\* Lines 396-411: detailed_answer and summary_answer from the content. The
\* content is first taken out of its fence; when it does not decode, or
\* decodes to something that is no JSON object (response_data.get raises),
\* the cleaned content is the detailed answer.
ParsedAnswer(response) ==
    LET combined_response == CleanFence(response.content)
    IN  IF response.json.t = "dict"
        THEN [detailed_answer |->
                  Get(response.json.v, "detailed_answer", PyStr(<<>>)),
              summary_answer  |->
                  Get(response.json.v, "summary_answer", PyStr(<<>>))]
        ELSE [detailed_answer |-> PyStr(combined_response),
              summary_answer  |-> PyStr(FallbackSummary(combined_response))]

\* "english"
english == <<"e", "n", "g", "l", "i", "s", "h">>

\* "chinese"
chinese == <<"c", "h", "i", "n", "e", "s", "e">>

\* The part of the prompt of the second model call that depends on the
\* state: the language instruction is chosen by
\* state.get("output_language", "english").
GenerationPrompt(state) ==
    [question |-> state["question"],
     context  |-> _build_context(Get(state, "retrieved_documents", <<>>)),
     related_qa |-> Get(state, "related_previous_qa", <<>>),
     context_summary |-> Get(state, "context_summary", PyStr(<<>>)),
     language |-> IF Get(state, "output_language", english) = chinese
                  THEN chinese ELSE english]

\* The node. An exception of the model call, or of _ensure_markdown_format
\* for a detailed_answer that is no string, takes the outer except branch,
\* which returns neither context nor sources.
_generate_and_summarize_answer(state, completion) ==
    LET retrieved_docs   == Get(state, "retrieved_documents", <<>>)
        processing_steps == Append(Get(state, "processing_steps", <<>>),
                                   StartingGenerationStep)
        context          == _build_context(retrieved_docs)
        response         == generate_response(completion)
        parsed           == ParsedAnswer(response)
        e == IF response.raised THEN response
             ELSE IF parsed.detailed_answer.t # "str" THEN Raise(ExpectedString)
             ELSE No
    IN  IF e.raised
        THEN [error            |-> GenerationFailedPrefix \o e.message,
              answer           |-> GenerationFailedAnswer,
              summary_answer   |-> PyStr(GenerationFailedSummary),
              processing_steps |->
                  Append(processing_steps, GenerationFailedPrefix \o e.message)]
        ELSE [context          |-> context,
              answer           |-> _ensure_markdown_format(parsed.detailed_answer.v),
              summary_answer   |-> parsed.summary_answer,
              sources          |-> _extract_sources(retrieved_docs),
              processing_steps |->
                  Append(processing_steps, GenerationCompletedStep)]

----------------------------------------------------------------------------
(* Node 4: WHIRAGSystem._validate_answer                                   *)

\* min(len(answer) / 500, 1.0): the length at which the answer scores 1.0.
FullLength == 500

\* min(len(sources) / 5, 1.0): the count at which the sources score 1.0.
FullSources == 5

\* The weights of the two parts of the score, in hundredths.
LengthWeight == 60

SourceWeight == 40

\* The score without the two caps at 1.0.
UncappedConfidence(answer, sources) ==
    IF answer = <<>> \/ sources = <<>> THEN 0
    ELSE LET num == LengthWeight * Len(answer) * FullSources
                        + SourceWeight * Len(sources) * FullLength
             den == FullLength * FullSources
         IN  (2 * num + den) \div (2 * den)

\* round(answer_length_score * 0.6 + source_count_score * 0.4, 2), in
\* hundredths. With len and n the capped length and count, the exact value is
\* (LengthWeight * len * FullSources + SourceWeight * n * FullLength)
\*     / (FullLength * FullSources)
\* hundredths; rounding to the nearest hundredth never meets a tie, because
\* the fraction has the odd denominator 25.
_calculate_confidence(answer, sources) ==
    IF answer = <<>> \/ sources = <<>> THEN 0
    ELSE LET len == IF Len(answer) < FullLength THEN Len(answer) ELSE FullLength
             n   == IF Len(sources) < FullSources THEN Len(sources) ELSE FullSources
             num == LengthWeight * len * FullSources + SourceWeight * n * FullLength
             den == FullLength * FullSources
         IN  (2 * num + den) \div (2 * den)

\* The node. fault is an exception raised inside the try block after the
\* first step was appended (None when nothing is raised).
_validate_answer(state, fault) ==
    LET answer           == Get(state, "answer", <<>>)
        sources          == Get(state, "sources", <<>>)
        processing_steps == Append(Get(state, "processing_steps", <<>>),
                                   StartingValidationStep)
        confidence_score == _calculate_confidence(answer, sources)
    IN  IF fault.raised
        THEN [confidence_score |-> 0,
              error            |-> ValidationFailedPrefix \o fault.message,
              processing_steps |->
                  Append(processing_steps, ValidationFailedPrefix \o fault.message)]
        ELSE [confidence_score |-> confidence_score,
              processing_steps |->
                  Append(processing_steps,
                         ValidationCompletedPrefix \o FormatScore(confidence_score))]

----------------------------------------------------------------------------
(* The environment: what the caller passes, what the model answers, what   *)
(* the index returns.                                                      *)

\* 'What is BMI?'
WhatIsBMI == <<"W", "h", "a", "t", " ", "i", "s", " ", "B", "M", "I", "?">>

Questions == {WhatIsBMI}

\* One turn of the chat as the front end passes it: question, answer and
\* timestamp, all strings.
PreviousTurn ==
    [question  |-> WhatIsBMI,
     answer    |-> <<"B", "o", "d", "y", " ", "m", "a", "s", "s", ".">>,
     timestamp |-> <<"1", "0", ":", "0", "0">>]

Histories == {<<>>, <<PreviousTurn>>}

Languages == {english, chinese}

\* The long answer of the environment: longer than FullLength, the least
\* length that scores 1.0.
LongText == [i \in 1..(FullLength + 20) |-> "a"]

\* The API call fails: "Connection error."
ConnectionError ==
    [kind |-> "error", message |-> <<"C", "o", "n", "n", "e", "c", "t", "i", "o", "n", " ", "e", "r",
        "r", "o", "r", ".">>]

\* Prose instead of JSON.
NotJSON ==
    [kind    |-> "content",
     content |-> <<"I", " ", "a", "m", " ", "n", "o", "t", " ", "s", "u",
                 "r", "e", ".">>,
     json    |-> JSONDecodeError]

\* A fenced JSON object: related to the entries 0, 1 and 5 of the history,
\* of type variable.
RelatedVariable ==
    [kind    |-> "content",
     content |-> <<"U+0060", "U+0060", "U+0060", "j", "s", "o", "n", "\n",
                 "{", "\"", "c", "o", "n", "t", "e", "x", "t", "_", "a", "n",
                 "a", "l", "y", "s", "i", "s", "\"", ":", " ", "{", "\"",
                 "i", "s", "_", "r", "e", "l", "a", "t", "e", "d", "\"", ":",
                 " ", "t", "r", "u", "e", ",", " ", "\"", "c", "o", "n", "t",
                 "e", "x", "t", "_", "s", "u", "m", "m", "a", "r", "y", "\"",
                 ":", " ", "\"", "B", "M", "I", " ", "a", "g", "a", "i", "n",
                 "\"", ",", " ", "\"", "r", "e", "l", "a", "t", "e", "d",
                 "_", "q", "a", "_", "i", "n", "d", "i", "c", "e", "s", "\"",
                 ":", " ", "[", "0", ",", " ", "1", ",", " ", "5", "]", "}",
                 ",", " ", "\"", "q", "u", "e", "s", "t", "i", "o", "n", "_",
                 "c", "l", "a", "s", "s", "i", "f", "i", "c", "a", "t", "i",
                 "o", "n", "\"", ":", " ", "{", "\"", "q", "u", "e", "s",
                 "t", "i", "o", "n", "_", "t", "y", "p", "e", "\"", ":", " ",
                 "\"", "v", "a", "r", "i", "a", "b", "l", "e", "\"", "}",
                 "}", "\n", "U+0060", "U+0060", "U+0060">>,
     json    |-> PyDict([context_analysis |-> PyDict([is_related |-> PyBool(TRUE),
                         context_summary |-> PyStr(<<"B", "M", "I", " ", "a", "g", "a", "i", "n">>),
                         related_qa_indices |-> PyList(<<PyInt(0), PyInt(1), PyInt(5)>>)]),
                     question_classification |-> PyDict([question_type |-> PyStr(<<"v", "a", "r", "i", "a", "b", "l", "e">>)])])]

\* A JSON object: unrelated, no context_summary, of type dataset.
UnrelatedDataset ==
    [kind    |-> "content",
     content |-> <<"{", "\"", "c", "o", "n", "t", "e", "x", "t", "_", "a",
                 "n", "a", "l", "y", "s", "i", "s", "\"", ":", " ", "{",
                 "\"", "i", "s", "_", "r", "e", "l", "a", "t", "e", "d",
                 "\"", ":", " ", "f", "a", "l", "s", "e", ",", " ", "\"",
                 "r", "e", "l", "a", "t", "e", "d", "_", "q", "a", "_", "i",
                 "n", "d", "i", "c", "e", "s", "\"", ":", " ", "[", "]", "}",
                 ",", " ", "\"", "q", "u", "e", "s", "t", "i", "o", "n", "_",
                 "c", "l", "a", "s", "s", "i", "f", "i", "c", "a", "t", "i",
                 "o", "n", "\"", ":", " ", "{", "\"", "q", "u", "e", "s",
                 "t", "i", "o", "n", "_", "t", "y", "p", "e", "\"", ":", " ",
                 "\"", "d", "a", "t", "a", "s", "e", "t", "\"", "}", "}">>,
     json    |-> PyDict([context_analysis |-> PyDict([is_related |-> PyBool(FALSE),
                         related_qa_indices |-> PyList(<<>>)]),
                     question_classification |-> PyDict([question_type |-> PyStr(<<"d", "a", "t", "a", "s", "e", "t">>)])])]

\* A JSON object without context_analysis and with a type outside the three.
OtherType ==
    [kind    |-> "content",
     content |-> <<"{", "\"", "q", "u", "e", "s", "t", "i", "o", "n", "_",
                 "c", "l", "a", "s", "s", "i", "f", "i", "c", "a", "t", "i",
                 "o", "n", "\"", ":", " ", "{", "\"", "q", "u", "e", "s",
                 "t", "i", "o", "n", "_", "t", "y", "p", "e", "\"", ":", " ",
                 "\"", "o", "t", "h", "e", "r", "\"", "}", "}">>,
     json    |-> PyDict([question_classification |-> PyDict([question_type |-> PyStr(<<"o", "t", "h", "e", "r">>)])])]

\* A JSON object whose context_analysis is a string.
AnalysisNotObject ==
    [kind    |-> "content",
     content |-> <<"{", "\"", "c", "o", "n", "t", "e", "x", "t", "_", "a",
                 "n", "a", "l", "y", "s", "i", "s", "\"", ":", " ", "\"",
                 "n", "o", "n", "e", "\"", "}">>,
     json    |-> PyDict([context_analysis |-> PyStr(<<"n", "o", "n", "e">>)])]

\* A JSON list.
JSONList ==
    [kind    |-> "content",
     content |-> <<"[", "]">>,
     json    |-> PyList(<<>>)]

AnalysisCompletions ==
    {ConnectionError, NotJSON, RelatedVariable, UnrelatedDataset, OtherType,
     AnalysisNotObject, JSONList}

\* A JSON object with a short detailed answer that the Markdown
\* normalisation changes.
ShortAnswer ==
    [kind    |-> "content",
     content |-> <<"{", "\"", "d", "e", "t", "a", "i", "l", "e", "d", "_",
                 "a", "n", "s", "w", "e", "r", "\"", ":", " ", "\"", "#",
                 " ", "B", "M", "I", "\\", "n", "*", " ", "2", "5", " ", "%",
                 "\"", ",", " ", "\"", "s", "u", "m", "m", "a", "r", "y",
                 "_", "a", "n", "s", "w", "e", "r", "\"", ":", " ", "\"",
                 "B", "M", "I", " ", "i", "s", " ", "2", "5", ".", "\"",
                 "}">>,
     json    |-> PyDict([detailed_answer |-> PyStr(<<"#", " ", "B", "M", "I", "\n", "*", " ", "2", "5",
                       " ", "%">>),
                     summary_answer |-> PyStr(<<"B", "M", "I", " ", "i", "s", " ", "2", "5", ".">>)])]

\* A JSON object whose detailed answer is LongText.
LongAnswer ==
    [kind    |-> "content",
     content |-> <<"{", "\"", "d", "e", "t", "a", "i", "l", "e", "d", "_", "a",
               "n", "s", "w", "e", "r", "\"", ":", " ", "\"">>
               \o LongText \o <<"\"", ",", " ", "\"", "s", "u", "m", "m", "a", "r", "y", "_", "a", "n", "s", "w", "e", "r", "\"", ":", " ", "\"", "L", "o", "n", "g", ".", "\"", "}">>,
     json    |-> PyDict([detailed_answer |-> PyStr(LongText),
                     summary_answer |-> PyStr(<<"L", "o", "n", "g", ".">>)])]

\* Prose of four lines instead of JSON.
ProseAnswer ==
    [kind    |-> "content",
     content |-> <<"B", "M", "I", "\n", "\n", "\n", "\n", "i", "s", " ", "2",
                 "5", " ", "%", "\n", "o", "k", " ">>,
     json    |-> JSONDecodeError]

\* A JSON object whose detailed_answer is null.
NullAnswer ==
    [kind    |-> "content",
     content |-> <<"{", "\"", "d", "e", "t", "a", "i", "l", "e", "d", "_",
                 "a", "n", "s", "w", "e", "r", "\"", ":", " ", "n", "u", "l",
                 "l", ",", " ", "\"", "s", "u", "m", "m", "a", "r", "y", "_",
                 "a", "n", "s", "w", "e", "r", "\"", ":", " ", "\"", "N",
                 "o", "n", "e", ".", "\"", "}">>,
     json    |-> PyDict([detailed_answer |-> PyNone,
                     summary_answer |-> PyStr(<<"N", "o", "n", "e", ".">>)])]

\* The empty JSON object.
EmptyObject ==
    [kind    |-> "content",
     content |-> <<"{", "}">>,
     json    |-> PyDict(EmptyDict)]

GenerationCompletions ==
    {ConnectionError, ShortAnswer, LongAnswer, ProseAnswer, NullAnswer,
     EmptyObject}

\* A document of WHIDataProcessor._create_variable_documents.
VariableDocument(i) ==
    [page_content |-> <<"V", "a", "r", "i", "a", "b", "l", "e", " ", "N",
                      "a", "m", "e", ":", " ", "B", "M", "I">> \o IntToStr(i),
     metadata |-> [variable_accession |-> <<"V", "1">>,
                 variable_name |-> <<"B", "M", "I">>,
                 dataset_accession |-> <<"D", "1">>,
                 dataset_name |-> <<"F", "o", "r", "m", " ", "8", "0">>,
                 study |-> <<"W", "H", "I">>,
                 type |-> <<"v", "a", "r", "i", "a", "b", "l", "e">>]]

\* A document of WHIDataProcessor._create_dataset_documents.
DatasetDocument(i) ==
    [page_content |-> <<"D", "a", "t", "a", "s", "e", "t", " ", "N", "a",
                      "m", "e", ":", " ", "F", "o", "r", "m", " ", "8",
                      "0">> \o IntToStr(i),
     metadata |-> [dataset_accession |-> <<"D", "1">>,
                 dataset_name |-> <<"F", "o", "r", "m", " ", "8", "0">>,
                 study |-> <<"W", "H", "I">>,
                 database |-> <<"C", "T">>,
                 type |-> <<"d", "a", "t", "a", "s", "e", "t">>]]

\* The first n documents of a result list: the second is a dataset document,
\* the others are variable documents.
Documents(n) ==
    [i \in 1..n |-> IF i = 2 THEN DatasetDocument(i) ELSE VariableDocument(i)]

\* What a search can do: fail, find nothing, or return RETRIEVAL_K documents.
SearchOutcomes ==
    {[kind |-> "error", message |-> SearchFailed]}
        \cup {[kind |-> "documents", documents |-> Documents(n)] :
                 n \in {0, RETRIEVAL_K}}

\* An exception inside the try block of _validate_answer: none, or one.

\* 'out of memory'
OutOfMemory ==
    <<"o", "u", "t", " ", "o", "f", " ", "m", "e", "m", "o", "r", "y">>

ValidationFaults == {No, Raise(OutOfMemory)}

\* What workflow.invoke says when it raises: "Recursion limit of 25 reached"
RecursionLimit ==
    <<"R", "e", "c", "u", "r", "s", "i", "o", "n", " ", "l", "i", "m", "i",
      "t", " ", "o", "f", " ", "2", "5", " ", "r", "e", "a", "c", "h", "e",
      "d">>

InvokeFaults == {RecursionLimit}

----------------------------------------------------------------------------
(* WHIRAGSystem: the instance and process_question                         *)

\* self.max_history_length
max_history_length == 10

VARIABLES
    pc,                  \* where process_question is: "idle" between calls, the
                         \* node the workflow runs next, "END" when invoke is
                         \* about to return, "except" in the handler
    call,                \* the arguments of the call in progress (of the last
                         \* call, between calls)
    state,               \* the channels of the running workflow
    exception,           \* the exception the handler has caught, if any
    result,              \* what the last call returned ({} while one runs)
    conversation_memory, \* self.conversation_memory
    clock,               \* datetime.now(): advances with every call
    calls,               \* history: the calls that have returned
    recorded,            \* history: every entry appended to the memory, in order
    stages_run,          \* history: the nodes run by the current invocation
    failed_stages,       \* history: the nodes that took their except branch
    llm_calls,           \* history: the model calls of the current invocation,
                         \* each with what the model did
    system_ready,        \* app.py: whether WHIRAGSystem() returned at start-up
    asked,               \* the question of the last call of the question
                         \* processor
    reply,               \* what that call returned ({} before the first call)
    tasks                \* the process_and_respond tasks the sessions have
                         \* created on the event loop, each with its position
                         \* and its own workflow state

\* A session served through MessageHandlers and HistoryHandlers.
VARIABLES
    chat_input,            \* input.chat_input(): the text of the input box
    chat_messages,         \* the messages of the chat, oldest first
    current_answer,        \* the detailed answer on display
    is_processing,         \* set while handle_send_message handles a question
    answer_history,        \* HistoryHandlers.answer_history
    current_history_index, \* HistoryHandlers.current_history_index
    in_flight,             \* the invocations of handle_send_message that are
                           \* at their await, each with its local variables
    sends                  \* history: the send_message events handled

session == <<chat_input, chat_messages, current_answer, is_processing,
             answer_history, current_history_index, in_flight, sends>>

\* The session as it is opened: the reactive values as they are created
\* (app.py, lines 245-247, and HistoryHandlers.__init__).
SessionOpened ==
    /\ chat_input = <<>>
    /\ chat_messages = <<>>
    /\ current_answer = <<>>
    /\ is_processing = FALSE
    /\ answer_history = <<>>
    /\ current_history_index = -1
    /\ in_flight = <<>>
    /\ sends = 0

\* The state of the hosting application, of the vector store manager and of
\* the session, which a call of WHIRAGSystem.process_question does not touch.
host == <<system_ready, asked, reply, tasks, vector_store, index_builds,
          session>>

vars == <<pc, call, state, exception, result, conversation_memory, clock,
          calls, recorded, stages_run, failed_stages, llm_calls, host>>

\* The application right after start-up, WHIRAGSystem() having returned with
\* the index loaded: no question asked, no task created.
HostStarted ==
    /\ system_ready = TRUE
    /\ asked = <<>>
    /\ reply = EmptyDict
    /\ tasks = <<>>
    /\ vector_store = "loaded"
    /\ index_builds = 0
    /\ SessionOpened

\* The state after WHIRAGSystem() has returned: the index is loaded or built,
\* the workflow is compiled, the memory is empty.
Init ==
    /\ pc = "idle"
    /\ call = EmptyDict
    /\ state = EmptyDict
    /\ exception = No
    /\ result = EmptyDict
    /\ conversation_memory = <<>>
    /\ clock = 0
    /\ calls = 0
    /\ recorded = <<>>
    /\ stages_run = <<>>
    /\ failed_stages = {}
    /\ llm_calls = <<>>
    /\ HostStarted

\* Lines 45-55: the initial state is handed to workflow.invoke, which writes
\* it to the channels and schedules the entry point.
process_question(question, conversation_history, output_language) ==
    LET initial_state ==
            [question             |-> question,
             conversation_history |-> conversation_history,
             output_language      |-> output_language,
             processing_steps     |-> <<>>]
    IN  /\ pc = "idle"
        /\ call' = [question             |-> question,
                    conversation_history |-> conversation_history,
                    output_language      |-> output_language]
        /\ state' = ApplyUpdate(EmptyDict, initial_state)
        /\ pc' = Nodes[1]
        /\ result' = EmptyDict
        /\ exception' = No
        /\ clock' = clock + 1
        /\ stages_run' = <<>>
        /\ failed_stages' = {}
        /\ llm_calls' = <<>>
        /\ UNCHANGED <<conversation_memory, calls, recorded, host>>

\* The workflow runs the node n, which returns update; returned is the dict
\* the one call of the node returned. It is written to the channels and the
\* edge out of n is followed.
RunNode(n, update) ==
    /\ pc = n
    /\ \E returned \in {update} :
           /\ state' = ApplyUpdate(state, returned)
           /\ failed_stages' = IF "error" \in DOMAIN returned
                               THEN failed_stages \cup {n}
                               ELSE failed_stages
    /\ pc' = NextNode(n)
    /\ stages_run' = Append(stages_run, n)
    /\ UNCHANGED <<call, exception, result, conversation_memory, clock, calls,
                   recorded, host>>

analyze_context_and_classify(completion) ==
    /\ RunNode(Nodes[1], _analyze_context_and_classify(state, completion))
    /\ llm_calls' = Append(llm_calls,
                           [node       |-> Nodes[1],
                            prompt     |-> AnalysisPrompt(state["question"],
                                               Get(state, "conversation_history", <<>>)),
                            completion |-> completion])

retrieve_documents(search) ==
    /\ RunNode(Nodes[2], _retrieve_documents(state, search))
    /\ UNCHANGED llm_calls

generate_and_summarize_answer(completion) ==
    /\ RunNode(Nodes[3], _generate_and_summarize_answer(state, completion))
    /\ llm_calls' = Append(llm_calls,
                           [node       |-> Nodes[3],
                            prompt     |-> GenerationPrompt(state),
                            completion |-> completion])

validate_answer(fault) ==
    /\ RunNode(Nodes[4], _validate_answer(state, fault))
    /\ UNCHANGED llm_calls

\* workflow.invoke itself raises, before a node or between two nodes: control
\* goes to the except clause of process_question.
invoke_raises(message) ==
    /\ pc \in {Nodes[i] : i \in 1..Len(Nodes)}
    /\ pc' = "except"
    /\ exception' = Raise(message)
    /\ state' = EmptyDict
    /\ UNCHANGED <<call, result, conversation_memory, clock, calls, recorded,
                   stages_run, failed_stages, llm_calls, host>>

\* A memory that appends and never drops an entry.
AppendWithoutEviction(memory, question, res, now) ==
    Append(memory,
           [question        |-> question,
            answer          |-> Get(res, "summary_answer", PyStr(<<>>)),
            detailed_answer |-> Get(res, "answer", <<>>),
            timestamp       |-> now,
            confidence      |-> Get(res, "confidence_score", 0),
            question_type   |-> Get(res, "question_type", general)])

\* Lines 77-95: the entry derived from the result is appended and, beyond
\* max_history_length entries, the oldest entry is dropped.
_save_to_memory(memory, question, res, now) ==
    LET qa_pair ==
            [question        |-> question,
             answer          |-> Get(res, "summary_answer", PyStr(<<>>)),
             detailed_answer |-> Get(res, "answer", <<>>),
             timestamp       |-> now,
             confidence      |-> Get(res, "confidence_score", 0),
             question_type   |-> Get(res, "question_type", general)]
        appended == Append(memory, qa_pair)
    IN  IF Len(appended) > max_history_length THEN Tail(appended) ELSE appended

\* Lines 55-60: invoke returns the values of the channels that were written,
\* the result is recorded and returned.
return_result ==
    /\ pc = "END"
    /\ conversation_memory' =
           _save_to_memory(conversation_memory, call.question, state, clock)
    /\ recorded' =
           Append(recorded, _save_to_memory(<<>>, call.question, state, clock)[1])
    /\ result' = state
    /\ state' = EmptyDict
    /\ pc' = "idle"
    /\ calls' = calls + 1
    /\ UNCHANGED <<call, exception, clock, stages_run, failed_stages, llm_calls,
                   host>>

\* A bundle that carries nothing but the error.
ErrorOnly(e) == [error |-> ProcessingFailedPrefix \o e]

\* The bundle of lines 68-75.
ErrorBundle(e) ==
    [error            |-> ProcessingFailedPrefix \o e,
     answer           |-> ProcessingFailedAnswer,
     summary_answer   |-> PyStr(ProcessingFailedSummary),
     confidence_score |-> 0,
     sources          |-> <<>>,
     processing_steps |-> <<ErrorStepPrefix \o e>>]

\* Lines 61-75: the except clause returns the canned bundle.
return_error ==
    /\ pc = "except"
    /\ result' = ErrorBundle(exception.message)
    /\ pc' = "idle"
    /\ calls' = calls + 1
    /\ UNCHANGED <<call, state, exception, conversation_memory, clock,
                   recorded, stages_run, failed_stages, llm_calls, host>>

----------------------------------------------------------------------------
(* The system under every input of the environment.                        *)

\* The number of calls of process_question a behaviour makes.
MaxCalls == 1

Next ==
    \/ /\ calls < MaxCalls
       /\ \E question \in Questions, conversation_history \in Histories,
             output_language \in Languages :
              process_question(question, conversation_history, output_language)
    \/ \E completion \in AnalysisCompletions :
           analyze_context_and_classify(completion)
    \/ \E search \in SearchOutcomes : retrieve_documents(search)
    \/ \E completion \in GenerationCompletions :
           generate_and_summarize_answer(completion)
    \/ \E fault \in ValidationFaults : validate_answer(fault)
    \/ \E message \in InvokeFaults : invoke_raises(message)
    \/ return_result
    \/ return_error

Spec == Init /\ [][Next]_vars

----------------------------------------------------------------------------
(* Properties of one call.                                                 *)

\* The last call has returned: result is the bundle it returned.
Returned == pc = "idle" /\ calls > 0

\* The set of the elements of the sequence s.
Range(s) == {s[i] : i \in 1..Len(s)}

\* The model calls of the current invocation made by node n.
CallsOf(n) == {i \in 1..Len(llm_calls) : llm_calls[i].node = n}

\* C1: process_question never lets an exception out. Whatever the stages did,
\* a call that has started is in a node, at END or in the handler, and from
\* the handler it returns; when workflow.invoke raised, what it returns is
\* the canned bundle: error "Question processing failed: " and the exception,
\* the fixed apology and notice, confidence_score 0.0, no sources and the one
\* step "Error: " and the exception.
C1_InvokeFailureReturnsCannedBundle ==
    /\ pc \in {"idle", "END", "except"} \cup Range(Nodes)
    /\ pc = "except" => exception.raised /\ ENABLED return_error
    /\ pc = "END" => ENABLED return_result
    /\ (Returned /\ exception.raised) =>
           result = [error            |-> ProcessingFailedPrefix \o exception.message,
                     answer           |-> ProcessingFailedAnswer,
                     summary_answer   |-> PyStr(ProcessingFailedSummary),
                     confidence_score |-> 0,
                     sources          |-> <<>>,
                     processing_steps |-> <<ErrorStepPrefix \o exception.message>>]

\* workflow.invoke raised after two stages had failed, and the call returned.
C1_Witness ==
    /\ Returned
    /\ exception.raised
    /\ Cardinality(failed_stages) = 2
    /\ "error" \in DOMAIN result

\* The fields every bundle is said to carry.
RequiredFields ==
    {"answer", "summary_answer", "confidence_score", "sources", "processing_steps"}

\* C2: whatever stages fail, the bundle process_question returns has the
\* fields answer, summary_answer, confidence_score, sources and
\* processing_steps.
C2_BundleHasAllFields == Returned => RequiredFields \subseteq DOMAIN result

\* A call returned a bundle after its generation stage had failed.
C2_Witness ==
    /\ Returned
    /\ ~exception.raised
    /\ Nodes[3] \in failed_stages
    /\ "sources" \notin DOMAIN result

\* confidence_score is set in the returned bundle and lies in [0, 1].
ConfidenceInRange ==
    Returned => /\ "confidence_score" \in DOMAIN result
                /\ result["confidence_score"] \in 0..100

\* C3, as stated: confidence_score is set in every returned bundle, lies in
\* [0, 1], and is 0.0 when the validation stage or any earlier stage failed.
C3_ZeroWhenAnyStageFailed ==
    /\ ConfidenceInRange
    /\ (Returned /\ failed_stages # {}) => result["confidence_score"] = 0

\* C3, amended: confidence_score is set in every returned bundle and lies in
\* [0, 1]; it is 0.0 when workflow.invoke raised or when the retrieval, the
\* generation or the validation stage failed. A failure of the
\* context-analysis stage alone leaves the score to the answer and the
\* sources.
C3_ZeroWhenLaterStageFailed ==
    /\ ConfidenceInRange
    /\ (Returned /\ (exception.raised
                       \/ failed_stages \cap {Nodes[2], Nodes[3], Nodes[4]} # {}))
           => result["confidence_score"] = 0

\* The longest answer with the most sources scored 1.0, capped.
C3_Witness ==
    /\ Returned
    /\ ~exception.raised
    /\ Len(result["answer"]) > FullLength
    /\ result["confidence_score"] = 100

\* C4: every call of process_question appends exactly one entry to the
\* memory, also the call whose workflow.invoke raises: once a call has
\* returned, as many entries have been appended as calls have been made.
C4_OneEntryPerCall == pc = "idle" => Len(recorded) = calls

\* A call returned the canned bundle and nothing was appended.
C4_Witness ==
    /\ Returned
    /\ exception.raised
    /\ Len(recorded) < calls

\* The summaries that say there is no context.
NoContextSummaries ==
    {PyStr(NoHistoricalContext), PyStr(NoContextAvailable),
     PyStr(NoRelatedConversations)}

\* C6: with an empty conversation_history the context-analysis stage makes
\* no model call, and the state it leaves has is_context_related false,
\* related_previous_qa empty and a context_summary that says there is no
\* context.
C6_EmptyHistoryMakesNoModelCall ==
    (/\ pc \in {Nodes[2], Nodes[3], Nodes[4], "END"}
     /\ call["conversation_history"] = <<>>)
        => /\ CallsOf(Nodes[1]) = {}
           /\ "is_context_related" \in DOMAIN state
           /\ state["is_context_related"] = PyBool(FALSE)
           /\ state["related_previous_qa"] = <<>>
           /\ state["context_summary"] \in NoContextSummaries

\* With an empty conversation_history the stage called the model, and the
\* summary in the state is the one the model gave.
C6_Witness ==
    /\ pc = Nodes[2]
    /\ call["conversation_history"] = <<>>
    /\ CallsOf(Nodes[1]) = {1}
    /\ llm_calls[1].prompt.context_info = NoContextAvailable
    /\ state["context_summary"] \notin NoContextSummaries

\* C7: the stages of one invocation run in the order context analysis,
\* retrieval, generation, validation, each once: the stages run so far are
\* the first nodes of the graph in its order, the node to run next is the one
\* that follows them, and invoke returns after all four.
C7_StagesRunInOrder ==
    /\ Len(stages_run) <= Len(Nodes)
    /\ \A i \in 1..Len(stages_run) : stages_run[i] = Nodes[i]
    /\ pc \in Range(Nodes) => pc = Nodes[Len(stages_run) + 1]
    /\ pc = "END" => stages_run = Nodes
    /\ (Returned /\ ~exception.raised) => stages_run = Nodes

\* An invocation returned after all four stages, the first two having failed.
C7_Witness ==
    /\ Returned
    /\ ~exception.raised
    /\ stages_run = Nodes
    /\ failed_stages = {Nodes[1], Nodes[2]}

\* The three question types.
QuestionTypes == {variable, dataset, general}

\* C9: once the context-analysis stage has run, question_type is variable,
\* dataset or general in every later state of the invocation and in the
\* bundle it returns.
C9_QuestionTypeIsOneOfThree ==
    /\ pc \in {Nodes[2], Nodes[3], Nodes[4], "END"} =>
           /\ "question_type" \in DOMAIN state
           /\ state["question_type"] \in QuestionTypes
    /\ (Returned /\ ~exception.raised) =>
           /\ "question_type" \in DOMAIN result
           /\ result["question_type"] \in QuestionTypes

\* The model named a type outside the three and the state holds general.
C9_Witness ==
    /\ pc = Nodes[2]
    /\ llm_calls[1].completion = OtherType
    /\ state["question_type"] = general

\* C10: when retrieval yields no document, by an empty result or by a
\* failure, the returned bundle has confidence_score 0.0 and sources present
\* and empty, whatever the other stages do.
C10_NoDocumentsNoSources ==
    (/\ Returned
     /\ ~exception.raised
     /\ result["retrieved_documents"] = <<>>)
        => /\ result["confidence_score"] = 0
           /\ "sources" \in DOMAIN result
           /\ result["sources"] = <<>>

\* Retrieval found nothing, generation failed, and the bundle has no sources.
C10_Witness ==
    /\ Returned
    /\ ~exception.raised
    /\ result["retrieved_documents"] = <<>>
    /\ Nodes[2] \notin failed_stages
    /\ Nodes[3] \in failed_stages
    /\ "sources" \notin DOMAIN result

----------------------------------------------------------------------------
(* The memory over many calls: one question, one outcome of every stage,   *)
(* and workflow.invoke raising or not.                                     *)

\* The number of calls of process_question a behaviour makes.
MaxMemoryCalls == 12

NextMemory ==
    \/ /\ calls < MaxMemoryCalls
       /\ process_question(WhatIsBMI, <<>>, english)
    \/ analyze_context_and_classify(UnrelatedDataset)
    \/ retrieve_documents([kind |-> "documents", documents |-> Documents(1)])
    \/ generate_and_summarize_answer(ShortAnswer)
    \/ validate_answer(No)
    \/ \E message \in InvokeFaults : invoke_raises(message)
    \/ return_result
    \/ return_error

SpecMemory == Init /\ [][NextMemory]_vars

\* The last n elements of the sequence s (all of s, if it has no more).
LastN(s, n) == SubSeq(s, IF Len(s) > n THEN Len(s) - n + 1 ELSE 1, Len(s))

\* C5: after any sequence of calls the memory holds at most
\* max_history_length entries, and they are the most recently recorded
\* entries in the order of recording.
C5_MemoryHoldsMostRecent ==
    /\ Len(conversation_memory) <= max_history_length
    /\ conversation_memory = LastN(recorded, max_history_length)

\* One entry more than the capacity was recorded: the memory is full and its
\* oldest entry is the second one recorded.
C5_Witness ==
    /\ Len(recorded) = max_history_length + 1
    /\ Len(conversation_memory) = max_history_length
    /\ conversation_memory[1] = recorded[2]
    /\ conversation_memory[1] # recorded[1]

----------------------------------------------------------------------------
(* Termination of one invocation: the stages under the scheduling of the   *)
(* workflow, which runs the node it has scheduled.                         *)

NextStages ==
    \/ /\ calls < MaxCalls
       /\ \E conversation_history \in Histories :
              process_question(WhatIsBMI, conversation_history, english)
    \/ \E completion \in {RelatedVariable, AnalysisNotObject} :
           analyze_context_and_classify(completion)
    \/ \E search \in SearchOutcomes : retrieve_documents(search)
    \/ \E completion \in {ConnectionError, LongAnswer} :
           generate_and_summarize_answer(completion)
    \/ \E fault \in ValidationFaults : validate_answer(fault)
    \/ return_result

FairSpec == Init /\ [][NextStages]_vars /\ WF_vars(NextStages)

\* C8: every invocation reaches the terminal state after the validation
\* stage, whichever stages fail: a stage that meets an exception returns its
\* update all the same and every later stage runs.
C8_InvocationReachesEnd ==
    (pc = Nodes[1]) ~> (pc = "END" /\ stages_run = Nodes)

\* An invocation reached END with all four stages failed.
C8_Witness ==
    /\ pc = "END"
    /\ stages_run = Nodes
    /\ failed_stages = Range(Nodes)

----------------------------------------------------------------------------
(* The validation stage over every answer length and every number of       *)
(* sources: the workflow is about to run validate_answer.                  *)

\* The longest answer and the most sources the validation stage is given.
MaxAnswerLength == 510

MaxSourceCount == 7

\* An answer of n characters.
AnswerOfLength(n) == [i \in 1..n |-> "a"]

\* The states in which the first three stages have left an answer of n
\* characters and k sources.
InitValidation ==
    /\ pc = Nodes[4]
    /\ call = [question |-> WhatIsBMI, conversation_history |-> <<>>,
               output_language |-> english]
    /\ \E n \in 0..MaxAnswerLength, k \in 0..MaxSourceCount :
           state = [question             |-> WhatIsBMI,
                    conversation_history |-> <<>>,
                    processing_steps     |-> <<>>,
                    answer               |-> AnswerOfLength(n),
                    sources              |-> _extract_sources(Documents(k))]
    /\ exception = No
    /\ result = EmptyDict
    /\ conversation_memory = <<>>
    /\ clock = 1
    /\ calls = 0
    /\ recorded = <<>>
    /\ stages_run = SubSeq(Nodes, 1, 3)
    /\ failed_stages = {}
    /\ llm_calls = <<>>
    /\ HostStarted

NextValidation ==
    \/ validate_answer(No)
    \/ return_result

SpecValidation == InitValidation /\ [][NextValidation]_vars

\* score, in hundredths, is x rounded to two decimals, for the x of
\*     x = 0.6 * min(len / 500, 1.0) + 0.4 * min(n / 5, 1.0):
\* in hundredths x is num / den, and score is the integer nearest to it.
IsRoundedScore(score, len, n) ==
    LET capped_len == IF len < FullLength THEN len ELSE FullLength
        capped_n   == IF n < FullSources THEN n ELSE FullSources
        num == LengthWeight * capped_len * FullSources
                   + SourceWeight * capped_n * FullLength
        den == FullLength * FullSources
    IN  /\ (2 * score - 1) * den <= 2 * num
        /\ 2 * num <= (2 * score + 1) * den

\* The score the validation stage has set is the formula's, or 0.0 when the
\* answer or the sources are empty.
ScoreFollowsFormula ==
    (Returned /\ ~exception.raised /\ failed_stages = {}) =>
        LET answer  == result["answer"]
            sources == result["sources"]
            score   == result["confidence_score"]
        IN  IF answer = <<>> \/ sources = <<>>
            THEN score = 0
            ELSE IsRoundedScore(score, Len(answer), Len(sources))

\* The score does not decrease when the answer grows by a character or the
\* sources by one.
ScoreIsMonotone ==
    (Returned /\ ~exception.raised /\ failed_stages = {}) =>
        LET answer  == result["answer"]
            sources == result["sources"]
            score   == result["confidence_score"]
        IN  /\ score <= _calculate_confidence(answer \o <<"a">>, sources)
            /\ score <= _calculate_confidence(answer,
                                              Append(sources, EmptyDict))

\* C11, as stated: the validation stage sets confidence_score to
\* round(0.6 * min(len(answer)/500, 1.0) + 0.4 * min(len(sources)/5, 1.0), 2)
\* when answer and sources are non-empty and to 0.0 when either is empty; the
\* score is non-decreasing in both, and it is 1.0 only when
\* len(answer) >= 500 and len(sources) >= 5.
C11_FullScoreNeedsFullLength ==
    /\ ScoreFollowsFormula
    /\ ScoreIsMonotone
    /\ (Returned /\ result["confidence_score"] = 100) =>
           /\ Len(result["answer"]) >= FullLength
           /\ Len(result["sources"]) >= FullSources

\* C11, amended: the same formula and monotonicity; the score is 1.0 exactly
\* when there are at least 5 sources and the answer has at least 496
\* characters, from which length on the sum rounds to 1.0
\* (0.6 * 496/500 + 0.4 = 0.9952).
C11_ScoreIsRoundedFormula ==
    /\ ScoreFollowsFormula
    /\ ScoreIsMonotone
    /\ (Returned /\ ~exception.raised /\ failed_stages = {}) =>
           (result["confidence_score"] = 100
                <=> /\ Len(result["answer"]) >= FullLength - 4
                    /\ Len(result["sources"]) >= FullSources)

\* An answer of 496 characters with 5 sources was scored 1.0.
C11_Witness ==
    /\ Returned
    /\ Len(result["answer"]) = 496
    /\ Len(result["sources"]) = FullSources
    /\ result["confidence_score"] = 100

----------------------------------------------------------------------------
(* Answers of 500 characters and more, end to end.                         *)

\* A JSON object whose detailed answer has FullLength characters, the last
\* 100 of them spaces.
PaddedAnswer ==
    [kind    |-> "content",
     content |-> <<"{", "\"", "d", "e", "t", "a", "i", "l", "e", "d", "_", "a",
                   "n", "s", "w", "e", "r", "\"", ":", " ", "\"">>
                 \o AnswerOfLength(FullLength - 100)
                 \o [i \in 1..100 |-> " "]
                 \o <<"\"", ",", " ", "\"", "s", "u", "m", "m", "a", "r", "y",
                      "_", "a", "n", "s", "w", "e", "r", "\"", ":", " ", "\"",
                      "P", "a", "d", "d", "e", "d", ".", "\"", "}">>,
     json    |-> PyDict([detailed_answer |->
                             PyStr(AnswerOfLength(FullLength - 100)
                                       \o [i \in 1..100 |-> " "]),
                         summary_answer  |->
                             PyStr(<<"P", "a", "d", "d", "e", "d", ".">>)])]

NextAnswers ==
    \/ /\ calls < MaxCalls
       /\ \E conversation_history \in Histories, output_language \in Languages :
              process_question(WhatIsBMI, conversation_history, output_language)
    \/ \E completion \in {RelatedVariable, ConnectionError} :
           analyze_context_and_classify(completion)
    \/ \E search \in SearchOutcomes : retrieve_documents(search)
    \/ \E completion \in {ShortAnswer, LongAnswer, PaddedAnswer} :
           generate_and_summarize_answer(completion)
    \/ validate_answer(No)
    \/ return_result

SpecAnswers == Init /\ [][NextAnswers]_vars

\* The detailed answer the generation stage takes from what the model
\* returned in the current invocation, before the post-processing.
GeneratedAnswer ==
    LET i == CHOOSE k \in CallsOf(Nodes[3]) : TRUE
    IN  ParsedAnswer(generate_response(llm_calls[i].completion)).detailed_answer

\* The call returned after retrieval had found RETRIEVAL_K documents and the
\* generation stage had succeeded.
ReturnedWithAllDocuments ==
    /\ Returned
    /\ ~exception.raised
    /\ failed_stages \cap {Nodes[2], Nodes[3], Nodes[4]} = {}
    /\ Len(result["retrieved_documents"]) = RETRIEVAL_K

\* C12, as stated: when retrieval returns 5 documents and the detailed
\* answer the model generated has at least 500 characters, the
\* confidence_score of the bundle is 1.0.
C12_LongGeneratedAnswerScoresFull ==
    (/\ ReturnedWithAllDocuments
     /\ GeneratedAnswer.t = "str"
     /\ Len(GeneratedAnswer.v) >= FullLength)
        => result["confidence_score"] = 100

\* C12, amended: when retrieval returns 5 documents and the answer of the
\* bundle, which is the generated answer after the post-processing, has at
\* least 500 characters, the confidence_score of the bundle is 1.0.
C12_LongReturnedAnswerScoresFull ==
    (/\ ReturnedWithAllDocuments
     /\ Len(result["answer"]) >= FullLength)
        => result["confidence_score"] = 100

\* A generated answer of more than 500 characters came back unshortened with
\* 5 sources and the score 1.0.
C12_Witness ==
    /\ ReturnedWithAllDocuments
    /\ GeneratedAnswer.t = "str"
    /\ Len(GeneratedAnswer.v) >= FullLength
    /\ Len(result["answer"]) >= FullLength
    /\ Len(result["sources"]) = RETRIEVAL_K
    /\ result["confidence_score"] = 100

----------------------------------------------------------------------------
(* What the bundle reports of the stages that failed.                      *)

\* The text with which the error of a failed stage begins.
FailurePrefix(n) ==
    CASE n = Nodes[1] -> AnalysisFailedPrefix
      [] n = Nodes[2] -> RetrievalFailedPrefix
      [] n = Nodes[3] -> GenerationFailedPrefix
      [] n = Nodes[4] -> ValidationFailedPrefix

\* C13: errors are accumulated. When stages fail the later stages still run,
\* and the error of the returned bundle accounts for every stage that failed:
\* it carries the message of each of them.
C13_ErrorAccountsForEveryFailure ==
    (Returned /\ ~exception.raised) =>
        /\ stages_run = Nodes
        /\ failed_stages # {} => "error" \in DOMAIN result
        /\ \A n \in failed_stages :
               Contains(result["error"], FailurePrefix(n))

\* The context-analysis stage and the generation stage failed, the other two
\* did not, and the error of the bundle is that of the generation stage alone.
C13_Witness ==
    /\ Returned
    /\ ~exception.raised
    /\ failed_stages = {Nodes[1], Nodes[3]}
    /\ Contains(result["error"], GenerationFailedPrefix)
    /\ ~Contains(result["error"], AnalysisFailedPrefix)

----------------------------------------------------------------------------
(* The audit trail across the stages of one invocation.                    *)

\* s is t with at least one entry taken off its end.
IsStrictPrefix(s, t) ==
    /\ Len(s) < Len(t)
    /\ SubSeq(t, 1, Len(s)) = s

\* C14: processing_steps is append-only across the stages of an invocation.
\* Every step in which a stage runs, whether the stage succeeds or fails,
\* leaves a list of which the list before the stage is a strict prefix.
C14_StepsAreAppendOnly ==
    [][(pc \in Range(Nodes) /\ pc' = NextNode(pc)) =>
           IsStrictPrefix(Get(state, "processing_steps", <<>>),
                          Get(state', "processing_steps", <<>>))]_vars

\* The retrieval stage has failed after a context-analysis stage that
\* succeeded, and the list holds the entries of both.
C14_Witness ==
    /\ pc = Nodes[3]
    /\ failed_stages = {Nodes[2]}
    /\ Len(state["processing_steps"]) >= 4
    /\ Contains(state["processing_steps"][Len(state["processing_steps"])],
                RetrievalFailedPrefix)

----------------------------------------------------------------------------
(* Markdown normalisation applied to what it returned.                     *)

\* Longest text the model returns in this specification.
MaxTextLen == 4

\* A digit, a unit, the bullet and bold marker, the heading marker, a space
\* and a line break.
MarkdownAlphabet == {"5", "%", "*", "#", " ", "\n"}

Texts == UNION {[1..n -> MarkdownAlphabet] : n \in 0..MaxTextLen}

\* json.loads of a text over MarkdownAlphabet: an integer when the text is
\* digits within white space, JSONDecodeError otherwise.
DecodedText(text) ==
    LET digits == strip(text)
    IN  IF digits # <<>> /\ \A k \in 1..Len(digits) : digits[k] = "5"
        THEN PyInt((5 * (10 ^ Len(digits) - 1)) \div 9)
        ELSE JSONDecodeError

\* A chat completion that delivers the text.
TextReply(text) ==
    [kind |-> "content", content |-> text, json |-> DecodedText(text)]

\* An invocation whose first two stages have run: the context analysis with
\* an empty history, and a retrieval that found no document.
InitMarkdown ==
    LET initial_state == [question             |-> WhatIsBMI,
                          conversation_history |-> <<>>,
                          processing_steps     |-> <<>>]
        analysed  == ApplyUpdate(initial_state,
                         _analyze_context_and_classify(initial_state,
                                                       UnrelatedDataset))
        retrieved == ApplyUpdate(analysed,
                         _retrieve_documents(analysed,
                             [kind      |-> "documents",
                              documents |-> Documents(0)]))
    IN  /\ HostStarted
        /\ pc = Nodes[3]
        /\ call = [question |-> WhatIsBMI, conversation_history |-> <<>>,
                   output_language |-> english]
        /\ state = retrieved
        /\ exception = No
        /\ result = EmptyDict
        /\ conversation_memory = <<>>
        /\ clock = 1
        /\ calls = 0
        /\ recorded = <<>>
        /\ stages_run = SubSeq(Nodes, 1, 2)
        /\ failed_stages = {}
        /\ llm_calls = <<[node       |-> Nodes[1],
                          prompt     |-> AnalysisPrompt(WhatIsBMI, <<>>),
                          completion |-> UnrelatedDataset]>>

NextMarkdown ==
    \/ \E text \in Texts : generate_and_summarize_answer(TextReply(text))
    \/ validate_answer(No)
    \/ return_result

SpecMarkdown == InitMarkdown /\ [][NextMarkdown]_vars

\* C15: markdown normalisation is idempotent. The answer the generation
\* stage stores is the normalised text; normalising it once more yields the
\* same string, whatever the text was.
C15_NormalizationIsIdempotent ==
    (pc = Nodes[4] /\ Nodes[3] \notin failed_stages) =>
        _ensure_markdown_format(state["answer"]) = state["answer"]

\* The model returned "5%": the stored answer is "**5%**", and normalising
\* it again gives "- *5%**".
C15_Witness ==
    /\ pc = Nodes[4]
    /\ GeneratedAnswer = PyStr(<<"5", "%">>)
    /\ state["answer"] = <<"*", "*", "5", "%", "*", "*">>
    /\ _ensure_markdown_format(state["answer"])
           = <<"-", " ", "*", "5", "%", "*", "*">>

----------------------------------------------------------------------------
(* The search query the retrieval stage builds from the question.          *)

\* 'Who took part?'
WhoTookPart ==
    <<"W", "h", "o", " ", "t", "o", "o", "k", " ", "p", "a", "r", "t", "?">>

\* 'At 50 years: BMI and Hemoglobin?'
AtFiftyYears ==
    <<"A", "t", " ", "5", "0", " ", "y", "e", "a", "r", "s", ":", " ", "B",
      "M", "I", " ", "a", "n", "d", " ", "H", "e", "m", "o", "g", "l", "o",
      "b", "i", "n", "?">>

\* 'Is 120 mmHg high?'
IsPressureHigh ==
    <<"I", "s", " ", "1", "2", "0", " ", "m", "m", "H", "g", " ", "h", "i",
      "g", "h", "?">>

\* 'Over 5% of cases'
FivePercent ==
    <<"O", "v", "e", "r", " ", "5", "%", " ", "o", "f", " ", "c", "a", "s",
      "e", "s">>

\* '12.5 years and 3 years'
TwoAges ==
    <<"1", "2", ".", "5", " ", "y", "e", "a", "r", "s", " ", "a", "n", "d",
      " ", "3", " ", "y", "e", "a", "r", "s">>

\* Questions without a term, with terms of one kind, and with a number and
\* unit that stands before the medical terms.
QueryQuestions ==
    {WhatIsBMI, WhoTookPart, AtFiftyYears, IsPressureHigh, FivePercent, TwoAges}

NextQuery ==
    \/ /\ calls < MaxCalls
       /\ \E question \in QueryQuestions :
              process_question(question, <<>>, english)
    \/ \E completion \in {RelatedVariable, ConnectionError} :
           analyze_context_and_classify(completion)
    \/ \E search \in SearchOutcomes : retrieve_documents(search)
    \/ generate_and_summarize_answer(ShortAnswer)
    \/ validate_answer(No)
    \/ return_result

SpecQuery == Init /\ [][NextQuery]_vars

\* The terms occur in s one after the other, in the order of the sequence.
OccurInOrder(terms, s) ==
    \E at \in [1..Len(terms) -> 1..Len(s)] :
        /\ \A i \in 1..Len(terms) : OccursAt(s, at[i], terms[i])
        /\ \A i \in 1..(Len(terms) - 1) : at[i] + Len(terms[i]) <= at[i + 1]

\* C16: when the extraction finds no medical term and no number with a unit
\* in the question, search_query is the question verbatim; otherwise it is
\* the extracted terms joined by single spaces, the medical terms first, each
\* group in the order in which its terms occur in the question.
C16_SearchQueryIsTermsOrQuestion ==
    (pc = Nodes[3] /\ Nodes[2] \notin failed_stages) =>
        LET question == state["question"]
            medical  == medical_terms(question)
            numeric  == numeric_terms(question)
        IN  /\ (medical = <<>> /\ numeric = <<>>) =>
                   state["search_query"] = question
            /\ (medical # <<>> \/ numeric # <<>>) =>
                   state["search_query"] = JoinWithSpace(medical \o numeric)
            /\ OccurInOrder(medical, lower(question))
            /\ OccurInOrder(numeric, lower(question))

\* A question whose number and unit stand before its two medical terms: the
\* query has the medical terms first.
C16_Witness ==
    /\ pc = Nodes[3]
    /\ Nodes[2] \notin failed_stages
    /\ state["question"] = AtFiftyYears
    /\ state["search_query"] = lower(SubSeq(AtFiftyYears, 14, 16)) \o <<" ">>
                                 \o lower(SubSeq(AtFiftyYears, 22, 31))
                                 \o <<" ">> \o SubSeq(AtFiftyYears, 4, 11)

----------------------------------------------------------------------------
(* QuestionProcessor: the answer in demo mode (question_processor.py)      *)

\* The keywords of the first test, in its order.
HemoglobinKeywords == << <<"h", "e", "m", "o", "g", "l", "o", "b", "i", "n">>,
                         <<"h", "e", "m", "o">>, <<"h", "g", "b">> >>

\* The keyword of the second test.
MesaKeywords == << <<"m", "e", "s", "a">> >>

\* The answer of the first branch (its two back quotes are written U+0060).
HemoglobinAnswer ==
    <<"*", "*", "H", "e", "m", "o", "g", "l", "o", "b", "i", "n", " ", "(",
      "H", "E", "M", "O", ")", "*", "*", " ", "i", "s", " ", "a", " ", "k",
      "e", "y", " ", "v", "a", "r", "i", "a", "b", "l", "e", " ", "f", "o",
      "r", " ", "m", "e", "a", "s", "u", "r", "i", "n", "g", " ", "b", "l",
      "o", "o", "d", " ", "o", "x", "y", "g", "e", "n", "-", "c", "a", "r",
      "r", "y", "i", "n", "g", " ", "c", "a", "p", "a", "c", "i", "t", "y",
      ".", "\n", "\n", "-", " ", "U", "s", "u", "a", "l", "l", "y", " ", "m",
      "e", "a", "s", "u", "r", "e", "d", " ", "i", "n", " ", "U+0060", "g",
      "/", "d", "L", "U+0060", " ", "u", "n", "i", "t", "s", "\n", "-", " ",
      "I", "m", "p", "o", "r", "t", "a", "n", "t", " ", "i", "n", "d", "i",
      "c", "a", "t", "o", "r", " ", "f", "o", "r", " ", "a", "s", "s", "e",
      "s", "s", "i", "n", "g", " ", "a", "n", "e", "m", "i", "a", " ", "s",
      "t", "a", "t", "u", "s">>

\* The answer of the second branch.
MesaAnswer ==
    <<"*", "*", "M", "E", "S", "A", " ", "(", "M", "u", "l", "t", "i", "-",
      "E", "t", "h", "n", "i", "c", " ", "S", "t", "u", "d", "y", " ", "o",
      "f", " ", "A", "t", "h", "e", "r", "o", "s", "c", "l", "e", "r", "o",
      "s", "i", "s", ")", "*", "*", " ", "i", "s", " ", "a", " ", "l", "o",
      "n", "g", "i", "t", "u", "d", "i", "n", "a", "l", " ", "s", "t", "u",
      "d", "y", " ", "e", "x", "a", "m", "i", "n", "i", "n", "g", " ", "c",
      "a", "r", "d", "i", "o", "v", "a", "s", "c", "u", "l", "a", "r", " ",
      "d", "i", "s", "e", "a", "s", "e", " ", "d", "e", "v", "e", "l", "o",
      "p", "m", "e", "n", "t", ".", "\n", "\n", "K", "e", "y", " ", "f", "e",
      "a", "t", "u", "r", "e", "s", ":", "\n", "-", " ", "M", "u", "l", "t",
      "i", "-", "e", "t", "h", "n", "i", "c", " ", "p", "a", "r", "t", "i",
      "c", "i", "p", "a", "t", "i", "o", "n", "\n", "-", " ", "L", "o", "n",
      "g", "-", "t", "e", "r", "m", " ", "f", "o", "l", "l", "o", "w", "-",
      "u", "p", "\n", "-", " ", "C", "a", "r", "d", "i", "o", "v", "a", "s",
      "c", "u", "l", "a", "r", " ", "d", "i", "s", "e", "a", "s", "e", " ",
      "p", "r", "e", "v", "e", "n", "t", "i", "o", "n">>

\* 'I found information related to **'
FoundInformationPrefix ==
    <<"I", " ", "f", "o", "u", "n", "d", " ", "i", "n", "f", "o", "r", "m",
      "a", "t", "i", "o", "n", " ", "r", "e", "l", "a", "t", "e", "d", " ",
      "t", "o", " ", "*", "*">>

\* '**.\n\nPlease provide more specific questions for detailed answers.'
FoundInformationSuffix ==
    <<"*", "*", ".", "\n", "\n", "P", "l", "e", "a", "s", "e", " ", "p", "r",
      "o", "v", "i", "d", "e", " ", "m", "o", "r", "e", " ", "s", "p", "e",
      "c", "i", "f", "i", "c", " ", "q", "u", "e", "s", "t", "i", "o", "n",
      "s", " ", "f", "o", "r", " ", "d", "e", "t", "a", "i", "l", "e", "d",
      " ", "a", "n", "s", "w", "e", "r", "s", ".">>

\* any(keyword in question_lower for keyword in keywords)
AnyKeywordIn(keywords, question_lower) ==
    \E i \in 1..Len(keywords) : Contains(question_lower, keywords[i])

\* The page shown for the answer: the "Basic Answer" frame around the HTML
\* that markdown.markdown makes of the answer, and the demo-mode notice. The
\* rendering itself is not modelled: the page is known by the text it renders.
FallbackPage(answer) ==
    [frame |-> "Basic Answer", markdown |-> answer, notice |-> "demo mode"]

\* Lines 227-269: the answer chosen by the first keyword test that succeeds
\* on question.lower(), returned with its page.
_fallback_answer(question) ==
    LET question_lower == lower(question)
        answer ==
            IF AnyKeywordIn(HemoglobinKeywords, question_lower)
            THEN HemoglobinAnswer
            ELSE IF AnyKeywordIn(MesaKeywords, question_lower)
            THEN MesaAnswer
            ELSE FoundInformationPrefix \o question \o FoundInformationSuffix
    IN  [summary_answer  |-> answer,
         detailed_answer |-> FallbackPage(answer)]

\* QuestionProcessor.process_question when "self.rag_system and
\* self.system_ready" is false (lines 98, 152-154): the pipeline is not
\* called, the demo-mode answer is returned. No statement of this branch
\* raises for a question that is a string.
answer_in_demo_mode(question) ==
    /\ ~system_ready
    /\ asked' = question
    /\ reply' = _fallback_answer(question)
    /\ UNCHANGED <<pc, call, state, exception, result, conversation_memory,
                   clock, calls, recorded, stages_run, failed_stages,
                   llm_calls, system_ready, tasks, vector_store,
                   index_builds, session>>

\* 'What is hemoglobin?'
WhatIsHemoglobin ==
    <<"W", "h", "a", "t", " ", "i", "s", " ", "h", "e", "m", "o", "g", "l",
      "o", "b", "i", "n", "?">>

\* 'Units of HGB?'
UnitsOfHGB ==
    <<"U", "n", "i", "t", "s", " ", "o", "f", " ", "H", "G", "B", "?">>

\* 'Tell me about MESA'
AboutMESA ==
    <<"T", "e", "l", "l", " ", "m", "e", " ", "a", "b", "o", "u", "t", " ",
      "M", "E", "S", "A">>

FallbackQuestions == {WhatIsHemoglobin, UnitsOfHGB, AboutMESA, WhatIsBMI}

\* The application after the module-level initialisation of app.py, lines
\* 12-24: WHIRAGSystem() returned and system_ready is True, or it raised and
\* rag_system is None with system_ready False.
InitApp ==
    /\ pc = "idle"
    /\ call = EmptyDict
    /\ state = EmptyDict
    /\ exception = No
    /\ result = EmptyDict
    /\ conversation_memory = <<>>
    /\ clock = 0
    /\ calls = 0
    /\ recorded = <<>>
    /\ stages_run = <<>>
    /\ failed_stages = {}
    /\ llm_calls = <<>>
    /\ system_ready \in BOOLEAN
    /\ asked = <<>>
    /\ reply = EmptyDict
    /\ tasks = <<>>
    /\ vector_store = IF system_ready THEN "loaded" ELSE "None"
    /\ index_builds = 0
    /\ SessionOpened

\* A question asked of the application: in demo mode it is answered by
\* _fallback_answer, otherwise it is handed to the pipeline (line 126).
NextFallback ==
    \/ \E question \in FallbackQuestions : answer_in_demo_mode(question)
    \/ /\ system_ready
       /\ calls < MaxCalls
       /\ \E question \in FallbackQuestions, conversation_history \in Histories :
              process_question(question, conversation_history, english)
    \/ \E completion \in {RelatedVariable, NotJSON} :
           analyze_context_and_classify(completion)
    \/ \E search \in SearchOutcomes : retrieve_documents(search)
    \/ generate_and_summarize_answer(ShortAnswer)
    \/ validate_answer(No)
    \/ return_result

SpecFallback == InitApp /\ [][NextFallback]_vars

\* "Hemoglobin"
Hemoglobin == SubSeq(HemoglobinAnswer, 3, 12)

\* C17: in demo mode a question never invokes the pipeline; what is returned
\* is the answer of the keyword that matches, and for a question containing
\* 'hemoglobin' the bundle has "Hemoglobin" in its summary_answer, a
\* confidence_score of 0.0 and no sources.
C17_DemoModeReturnsScoredCannedAnswer ==
    ~system_ready =>
        /\ pc = "idle" /\ calls = 0
        /\ stages_run = <<>> /\ llm_calls = <<>>
        /\ asked # <<>> =>
               \/ reply["summary_answer"] \in {HemoglobinAnswer, MesaAnswer}
               \/ Contains(reply["summary_answer"], asked)
        /\ (asked # <<>> /\ Contains(lower(asked), lower(Hemoglobin))) =>
               /\ Contains(reply["summary_answer"], Hemoglobin)
               /\ "confidence_score" \in DOMAIN reply
               /\ reply["confidence_score"] = 0
               /\ Get(reply, "sources", <<>>) = <<>>

\* In demo mode "What is hemoglobin?" was answered: the summary names
\* Hemoglobin, the pipeline did not run, and the bundle has two keys only.
C17_Witness ==
    /\ ~system_ready
    /\ asked = WhatIsHemoglobin
    /\ Contains(reply["summary_answer"], Hemoglobin)
    /\ calls = 0 /\ llm_calls = <<>>
    /\ DOMAIN reply = {"summary_answer", "detailed_answer"}

----------------------------------------------------------------------------
(* Two earlier turns about MESA and a new question about MESA.             *)

\* 'What is MESA?' - 'A cohort study.'
WhatIsMESATurn ==
    [question  |-> <<"W", "h", "a", "t", " ", "i", "s", " ", "M", "E", "S", "A", "?">>,
     answer    |-> <<"A", " ", "c", "o", "h", "o", "r", "t", " ", "s", "t", "u", "d", "y", ".">>,
     timestamp |-> <<"1", "0", ":", "0", "0">>]

\* 'Who funds MESA?' - 'NHLBI.'
WhoFundsMESATurn ==
    [question  |-> <<"W", "h", "o", " ", "f", "u", "n", "d", "s", " ", "M", "E", "S", "A", "?">>,
     answer    |-> <<"N", "H", "L", "B", "I", ".">>,
     timestamp |-> <<"1", "0", ":", "0", "5">>]

\* 'How many cohorts?' - 'Two: MESA and ARIC.'
HowManyCohortsTurn ==
    [question  |-> <<"H", "o", "w", " ", "m", "a", "n", "y", " ", "c", "o", "h", "o", "r", "t", "s", "?">>,
     answer    |-> <<"T", "w", "o", ":", " ", "M", "E", "S", "A", " ", "a", "n", "d", " ", "A", "R", "I", "C", ".">>,
     timestamp |-> <<"1", "0", ":", "0", "0">>]

\* 'Who funds them?' - 'NHLBI funds MESA.'
WhoFundsThemTurn ==
    [question  |-> <<"W", "h", "o", " ", "f", "u", "n", "d", "s", " ", "t", "h", "e", "m", "?">>,
     answer    |-> <<"N", "H", "L", "B", "I", " ", "f", "u", "n", "d", "s", " ", "M", "E", "S", "A", ".">>,
     timestamp |-> <<"1", "0", ":", "0", "5">>]

\* 'Is MESA longitudinal?'
IsMESALongitudinal ==
    <<"I", "s", " ", "M", "E", "S", "A", " ", "l", "o", "n", "g", "i", "t",
      "u", "d", "i", "n", "a", "l", "?">>

\* 'mesa size'
MesaSize == <<"m", "e", "s", "a", " ", "s", "i", "z", "e">>

\* Histories of two turns that mention MESA: both in the question, both in
\* the answer only, and one of each.
MesaHistories ==
    {<<WhatIsMESATurn, WhoFundsMESATurn>>,
     <<HowManyCohortsTurn, WhoFundsThemTurn>>,
     <<HowManyCohortsTurn, WhoFundsMESATurn>>}

MesaQuestions == {IsMESALongitudinal, MesaSize}

\* The model call of the first stage fails, returns text that is no JSON, or
\* returns a payload that names the turns 0 and 1 as related.
NextContext ==
    \/ /\ calls < MaxCalls
       /\ \E question \in MesaQuestions, conversation_history \in MesaHistories :
              process_question(question, conversation_history, english)
    \/ \E completion \in {ConnectionError, NotJSON, RelatedVariable} :
           analyze_context_and_classify(completion)
    \/ \E search \in SearchOutcomes : retrieve_documents(search)
    \/ generate_and_summarize_answer(ShortAnswer)
    \/ validate_answer(No)
    \/ return_result

SpecContext == Init /\ [][NextContext]_vars

\* The text mentions MESA, in capitals or not.
MentionsMESA(text) == Contains(lower(text), MesaKeywords[1])

\* The call in progress has a history of two turns that both mention MESA,
\* in the question or in the answer, and a question that mentions MESA.
TwoMesaTurns ==
    /\ Len(call["conversation_history"]) = 2
    /\ \A i \in 1..2 :
           \/ MentionsMESA(call["conversation_history"][i].question)
           \/ MentionsMESA(call["conversation_history"][i].answer)
    /\ MentionsMESA(call["question"])

\* C18: with two earlier turns that both mention MESA and a question that
\* mentions MESA, the context-analysis stage, with the model or with the
\* keyword heuristic, leaves is_context_related true and at least one
\* earlier pair in related_previous_qa.
C18_TwoMesaTurnsAreRelated ==
    (pc = Nodes[2] /\ TwoMesaTurns) =>
        /\ state["related_previous_qa"] # <<>>
        /\ "is_context_related" \in DOMAIN state
        /\ state["is_context_related"] = PyBool(TRUE)

\* The model call failed, both earlier turns mention MESA in their answers
\* only, and the heuristic has left related_previous_qa empty.
C18_Witness ==
    /\ pc = Nodes[2]
    /\ TwoMesaTurns
    /\ call["conversation_history"] = <<HowManyCohortsTurn, WhoFundsThemTurn>>
    /\ llm_calls[1].completion = ConnectionError
    /\ Nodes[1] \notin failed_stages
    /\ state["related_previous_qa"] = <<>>
    /\ state["context_summary"] = PyStr(NoRelatedConversations)

----------------------------------------------------------------------------
(* Several questions in flight on the one instance (app.py, lines 550-588) *)

\* The number of process_and_respond tasks a behaviour creates.
MaxTasks == 2

\* The variables of the call of process_question that the sequential
\* specifications follow; the tasks below keep their own.
sequential == <<pc, call, state, exception, result, calls, stages_run,
                failed_stages, llm_calls, system_ready, asked, reply,
                vector_store, index_builds, session>>

\* Where a task is: created by asyncio.create_task and not yet started, at a
\* node of the workflow, at "END" when invoke is about to return, at
\* "append" before line 89 of _save_to_memory, at "evict" before line 92,
\* "done" when process_and_respond has finished.
Started(t) == tasks[t].pc \notin {"created", "done"}

\* Every task on a thread of its own: any task may take the next step.
ThreadRuns(t) == TRUE

\* The event loop runs one callback at a time. process_and_respond has one
\* await, of the coroutine process_question, which has none and calls the
\* pipeline synchronously: a task that has started runs to its end before
\* the loop runs anything else. t = 0 stands for a callback that is no task.
EventLoopRuns(t) ==
    \A u \in 1..Len(tasks) : u # t => ~Started(u)

\* The list of steps shared by the invocations of the instance: a new
\* invocation starts with the list of the task created before it.
SharedSteps(t) ==
    IF t > 1 /\ "processing_steps" \in DOMAIN tasks[t - 1].state
    THEN tasks[t - 1].state["processing_steps"]
    ELSE <<>>

\* "processing_steps": [] of the initial state, line 51: a new list for
\* every call.
FreshSteps(t) == <<>>

\* Lines 552-588 of app.py: the handler of a send event creates the task.
handle_send_message(question, conversation_history) ==
    /\ Len(tasks) < MaxTasks
    /\ EventLoopRuns(0)
    /\ tasks' = Append(tasks, [question             |-> question,
                               conversation_history |-> conversation_history,
                               pc                   |-> "created",
                               state                |-> EmptyDict,
                               result               |-> EmptyDict])
    /\ UNCHANGED <<sequential, conversation_memory, clock, recorded>>

\* A pipeline that falls back on the memory of the instance when the
\* caller passes no history.
HistoryFromMemory(conversation_history) ==
    IF conversation_history # <<>>
    THEN conversation_history
    ELSE [i \in 1..Len(conversation_memory) |->
             [question  |-> conversation_memory[i].question,
              answer    |-> conversation_memory[i].answer.v,
              timestamp |-> <<"1", "0", ":", "0", "0">>]]

\* "conversation_history": conversation_history or [], line 49: the history
\* of the initial state is the one the caller passed.
CallerHistory(conversation_history) == conversation_history

\* The task starts: process_question builds its initial state and hands it
\* to workflow.invoke (system.py, lines 47-55).
task_process_question(t) ==
    /\ tasks[t].pc = "created"
    /\ EventLoopRuns(t)
    /\ tasks' = [tasks EXCEPT
                   ![t].pc = Nodes[1],
                   ![t].state =
                       ApplyUpdate(EmptyDict,
                           [question             |-> tasks[t].question,
                            conversation_history |->
                                CallerHistory(tasks[t].conversation_history),
                            output_language      |-> english,
                            processing_steps     |-> FreshSteps(t)])]
    /\ UNCHANGED <<sequential, conversation_memory, clock, recorded>>

\* What the node the task is at returns, for the outcomes of this
\* specification: the model classifies, one document is found, the second
\* model call answers or fails, validation meets no fault.
TaskUpdate(t, completion) ==
    CASE tasks[t].pc = Nodes[1] ->
             _analyze_context_and_classify(tasks[t].state, UnrelatedDataset)
      [] tasks[t].pc = Nodes[2] ->
             _retrieve_documents(tasks[t].state,
                 [kind |-> "documents", documents |-> Documents(1)])
      [] tasks[t].pc = Nodes[3] ->
             _generate_and_summarize_answer(tasks[t].state, completion)
      [] tasks[t].pc = Nodes[4] ->
             _validate_answer(tasks[t].state, No)

\* The workflow of the task runs the node it is at.
task_run_node(t, completion) ==
    /\ tasks[t].pc \in Range(Nodes)
    /\ EventLoopRuns(t)
    /\ \E returned \in {TaskUpdate(t, completion)} :
           tasks' = [tasks EXCEPT
                       ![t].pc = NextNode(tasks[t].pc),
                       ![t].state = ApplyUpdate(tasks[t].state, returned)]
    /\ UNCHANGED <<sequential, conversation_memory, clock, recorded>>

\* invoke returns the channels (line 55).
task_invoke_returns(t) ==
    /\ tasks[t].pc = "END"
    /\ EventLoopRuns(t)
    /\ tasks' = [tasks EXCEPT ![t].pc = "append",
                              ![t].result = tasks[t].state]
    /\ UNCHANGED <<sequential, conversation_memory, clock, recorded>>

\* Lines 80-89 of _save_to_memory: the entry is built and appended.
append_to_memory(t) ==
    LET qa_pair == _save_to_memory(<<>>, tasks[t].question,
                                   tasks[t].result, clock + 1)[1]
    IN  /\ tasks[t].pc = "append"
        /\ EventLoopRuns(t)
        /\ conversation_memory' = Append(conversation_memory, qa_pair)
        /\ recorded' = Append(recorded, qa_pair)
        /\ clock' = clock + 1
        /\ tasks' = [tasks EXCEPT ![t].pc = "evict"]
        /\ UNCHANGED sequential

\* Lines 92-93: beyond max_history_length entries the oldest is dropped;
\* process_question then returns and the task delivers the answer.
evict_from_memory(t) ==
    /\ tasks[t].pc = "evict"
    /\ EventLoopRuns(t)
    /\ conversation_memory' =
           IF Len(conversation_memory) > max_history_length
           THEN Tail(conversation_memory)
           ELSE conversation_memory
    /\ tasks' = [tasks EXCEPT ![t].pc = "done"]
    /\ UNCHANGED <<sequential, clock, recorded>>

\* A bundle returned by an earlier call.
EarlierBundle ==
    [answer           |-> <<"B", "o", "d", "y", " ", "m", "a", "s", "s", ".">>,
     summary_answer   |-> PyStr(<<"M", "a", "s", "s", ".">>),
     confidence_score |-> 40,
     question_type    |-> general]

\* The memory after n earlier calls, n within the capacity.
EarlierMemory(n) ==
    [i \in 1..n |-> _save_to_memory(<<>>, WhatIsBMI, EarlierBundle, i)[1]]

\* The instance after earlier calls that have left the memory empty, one
\* entry short of full, or full; no task exists yet.
InitTasks ==
    /\ pc = "idle"
    /\ call = EmptyDict
    /\ state = EmptyDict
    /\ exception = No
    /\ result = EmptyDict
    /\ \E n \in {0, max_history_length - 1, max_history_length} :
           /\ conversation_memory = EarlierMemory(n)
           /\ recorded = EarlierMemory(n)
           /\ clock = n
           /\ calls = n
    /\ stages_run = <<>>
    /\ failed_stages = {}
    /\ llm_calls = <<>>
    /\ HostStarted

NextTasks ==
    \/ \E question \in {WhatIsBMI, WhatIsHemoglobin},
          conversation_history \in Histories :
           handle_send_message(question, conversation_history)
    \/ \E t \in 1..Len(tasks) :
           \/ task_process_question(t)
           \/ \E completion \in {ShortAnswer, ConnectionError} :
                  task_run_node(t, completion)
           \/ task_invoke_returns(t)
           \/ append_to_memory(t)
           \/ evict_from_memory(t)

SpecTasks == InitTasks /\ [][NextTasks]_vars

\* The tasks that are inside the append-and-evict step of _save_to_memory.
InSaveToMemory == {t \in 1..Len(tasks) : tasks[t].pc \in {"append", "evict"}}

ChannelsOf(t) ==
    IF tasks[t].pc \in {"append", "evict", "done"}
    THEN tasks[t].result
    ELSE tasks[t].state

\* C20: every invocation works on a state record of its own. Whatever other
\* invocations ran before it or are in flight with it, the state of a task
\* holds the question and the history of that task, and its processing_steps
\* are the steps of that invocation alone: they begin with the first step of
\* the first stage and no step occurs in them twice.
C20_InvocationsHaveOwnState ==
    \A t \in 1..Len(tasks) :
        tasks[t].pc # "created" =>
            LET steps == ChannelsOf(t)["processing_steps"]
            IN  /\ ChannelsOf(t)["question"] = tasks[t].question
                /\ ChannelsOf(t)["conversation_history"]
                       = tasks[t].conversation_history
                /\ steps # <<>> => steps[1] = StartingAnalysisStep
                /\ \A i, j \in 1..Len(steps) : steps[i] = steps[j] => i = j

\* Two invocations with the same question have both returned, the second
\* after the first: each bundle holds the steps of one invocation.
C20_Witness ==
    /\ Len(tasks) = 2
    /\ tasks[1].pc = "done" /\ tasks[2].pc = "done"
    /\ tasks[1].question = tasks[2].question
    /\ tasks[2].result["processing_steps"] # <<>>
    /\ tasks[2].result["processing_steps"] = tasks[1].result["processing_steps"]

----------------------------------------------------------------------------
(* The bundle and the conversation memory.                                 *)

\* The second model call of a task answers or fails.
TaskCompletions == {ShortAnswer, ConnectionError}

\* The bundle of an invocation as its inputs and the responses of its
\* environment determine it: the four nodes applied in turn to the initial
\* state, with the outcomes of TaskUpdate. The memory is no argument.
BundleFor(question, conversation_history, completion) ==
    LET initial_state ==
            [question             |-> question,
             conversation_history |-> conversation_history,
             output_language      |-> english,
             processing_steps     |-> <<>>]
        after1 == {ApplyUpdate(s0, _analyze_context_and_classify(s0, UnrelatedDataset)) :
                      s0 \in {ApplyUpdate(EmptyDict, initial_state)}}
        after2 == {ApplyUpdate(s1, _retrieve_documents(s1,
                       [kind |-> "documents", documents |-> Documents(1)])) :
                      s1 \in after1}
        after3 == {ApplyUpdate(s2, _generate_and_summarize_answer(s2, completion)) :
                      s2 \in after2}
    IN  CHOOSE bundle \in {ApplyUpdate(s3, _validate_answer(s3, No)) :
                              s3 \in after3} : TRUE

\* The tasks to which invoke has returned a bundle.
Answered == {t \in 1..Len(tasks) : tasks[t].pc \in {"append", "evict", "done"}}

\* C21: the bundle does not depend on the conversation memory. Whatever the
\* memory held when the invocation ran, the bundle is the one its question,
\* its history and the responses of the environment determine; two
\* invocations with the same question and history whose second model call
\* did the same return the same bundle.
C21_BundleIgnoresMemory ==
    /\ \A t \in Answered :
           \E completion \in TaskCompletions :
               tasks[t].result = BundleFor(tasks[t].question,
                                           tasks[t].conversation_history,
                                           completion)
    /\ \A t, u \in Answered :
           (/\ tasks[t].question = tasks[u].question
            /\ tasks[t].conversation_history = tasks[u].conversation_history
            /\ ("error" \in DOMAIN tasks[t].result)
                   <=> ("error" \in DOMAIN tasks[u].result))
               => tasks[t].result = tasks[u].result

\* Two invocations with the same question and no history, the second run on
\* a memory that holds the entry of the first: the bundles are equal.
C21_Witness ==
    /\ Len(tasks) = 2
    /\ tasks[1].pc = "done" /\ tasks[2].pc = "done"
    /\ tasks[1].question = tasks[2].question
    /\ tasks[1].conversation_history = <<>>
    /\ tasks[2].conversation_history = <<>>
    /\ Len(recorded) = 2
    /\ conversation_memory = recorded
    /\ "error" \notin DOMAIN tasks[1].result
    /\ tasks[1].result = tasks[2].result


----------------------------------------------------------------------------
(* Start-up: WHIRAGSystem._initialize_system, run once by the constructor  *)
(* when app.py is imported, before a session is served.                    *)

\* The number of questions asked after the start-up.
MaxStartupCalls == 2

\* The steps of _initialize_system.
StartupSteps == {"load_data", "load_vector_store", "create_vector_store"}

\* The module app.py before WHIRAGSystem() is called (lines 12-14).
InitStartup ==
    /\ pc = "load_data"
    /\ call = EmptyDict
    /\ state = EmptyDict
    /\ exception = No
    /\ result = EmptyDict
    /\ conversation_memory = <<>>
    /\ clock = 0
    /\ calls = 0
    /\ recorded = <<>>
    /\ stages_run = <<>>
    /\ failed_stages = {}
    /\ llm_calls = <<>>
    /\ system_ready = FALSE
    /\ asked = <<>>
    /\ reply = EmptyDict
    /\ tasks = <<>>
    /\ vector_store = "None"
    /\ index_builds = 0
    /\ SessionOpened

\* Line 28: data_processor.load_data() returns, or raises, and then so do
\* _initialize_system (line 41) and the constructor: app.py goes on in demo
\* mode.
initialize_load_data(outcome) ==
    /\ pc = "load_data"
    /\ pc' = IF outcome = "raises" THEN "idle" ELSE "load_vector_store"
    /\ UNCHANGED <<call, state, exception, result, conversation_memory, clock,
                   calls, recorded, stages_run, failed_stages, llm_calls,
                   host>>

\* Line 31: load_vector_store is tried; if it returns True the constructor
\* goes on to _build_workflow and returns, and app.py sets system_ready.
initialize_load_vector_store(on_disk) ==
    /\ pc = "load_vector_store"
    /\ \E loaded \in {load_vector_store(vector_store, on_disk)} :
           /\ vector_store' = loaded.vector_store
           /\ pc' = IF loaded.returned THEN "idle" ELSE "create_vector_store"
           /\ system_ready' = loaded.returned
    /\ UNCHANGED <<call, state, exception, result, conversation_memory, clock,
                   calls, recorded, stages_run, failed_stages, llm_calls,
                   asked, reply, tasks, index_builds, session>>

\* Lines 33-35: the documents are created and the index is built from them
\* and saved; an exception goes to line 41 and leaves app.py in demo mode.
initialize_create_vector_store(building, saving) ==
    /\ pc = "create_vector_store"
    /\ \E created \in {create_vector_store(vector_store,
                                           Documents(RETRIEVAL_K),
                                           building, saving)} :
           /\ vector_store' = created.vector_store
           /\ system_ready' = ~created.raised
    /\ index_builds' = index_builds + 1
    /\ pc' = "idle"
    /\ UNCHANGED <<call, state, exception, result, conversation_memory, clock,
                   calls, recorded, stages_run, failed_stages, llm_calls,
                   asked, reply, tasks, session>>

\* The start-up, and then the questions of the sessions: answered by the
\* pipeline if the constructor returned, in demo mode otherwise.
NextStartup ==
    \/ \E outcome \in {"ok", "raises"} : initialize_load_data(outcome)
    \/ \E on_disk \in OnDisk : initialize_load_vector_store(on_disk)
    \/ \E building, saving \in {"ok", "raises"} :
           initialize_create_vector_store(building, saving)
    \/ /\ pc = "idle"
       /\ \E question \in FallbackQuestions : answer_in_demo_mode(question)
    \/ /\ system_ready
       /\ calls < MaxStartupCalls
       /\ \E question \in {WhatIsBMI, WhatIsHemoglobin} :
              process_question(question, <<>>, english)
    \/ analyze_context_and_classify(NotJSON)
    \/ \E search \in SearchOutcomes : retrieve_documents(search)
    \/ generate_and_summarize_answer(ShortAnswer)
    \/ validate_answer(No)
    \/ return_result

SpecStartup == InitStartup /\ [][NextStartup]_vars

\* C22: the index is built at most once, by the start-up only and only after
\* load_vector_store has returned False leaving no index; nothing after the
\* start-up loads or builds; and once the constructor has returned the
\* index exists, so that no search raises 'Vector store not initialized'.
C22_IndexBuiltOnceAtStartup ==
    /\ [](/\ index_builds <= 1
          /\ (index_builds = 1 => vector_store # "loaded")
          /\ (system_ready => vector_store # "None")
          /\ (pc = Nodes[3] /\ Nodes[2] \in failed_stages =>
                  state["error"]
                      # RetrievalFailedPrefix \o VectorStoreNotInitialized))
    /\ [][/\ (index_builds' # index_builds =>
                  pc = "create_vector_store" /\ vector_store = "None")
          /\ (vector_store' # vector_store => pc \in StartupSteps)]_vars

\* The index was built at the start-up and two questions have been answered
\* with a search of it.
C22_Witness ==
    /\ system_ready
    /\ index_builds = 1
    /\ vector_store = "built"
    /\ calls = 2
    /\ pc = "idle"
    /\ Nodes[2] \in Range(stages_run)
    /\ Nodes[2] \notin failed_stages


----------------------------------------------------------------------------
(* The first stage when the model gives nothing usable: the keyword        *)
(* heuristic decides.                                                      *)

\* The number of questions asked of the heuristic.
MaxHeuristicCalls == 1

\* 'Who took part?' - 'Women aged 50 to 79.'
WhoTookPartTurn ==
    [question  |-> <<"W", "h", "o", " ", "t", "o", "o", "k", " ", "p", "a", "r", "t", "?">>,
     answer    |-> <<"W", "o", "m", "e", "n", " ", "a", "g", "e", "d", " ", "5", "0", " ", "t", "o", " ", "7", "9", ".">>,
     timestamp |-> <<"0", "9", ":", "5", "5">>]

\* 'WHO FUNDS IT?'
WhoFundsIt ==
    <<"W", "H", "O", " ", "F", "U", "N", "D", "S", " ", "I", "T", "?">>

\* Histories as the front end passes them: a turn that shares one word with
\* 'WHO FUNDS IT?' and a turn that shares two; a turn that names MESA and a
\* turn that shares nothing.
HeuristicHistories ==
    {<<WhoTookPartTurn, WhoFundsMESATurn>>,
     <<WhatIsMESATurn, HowManyCohortsTurn>>}

HeuristicQuestions == {WhoFundsIt, IsMESALongitudinal, MesaSize}

NextHeuristic ==
    \/ /\ calls < MaxHeuristicCalls
       /\ \E question \in HeuristicQuestions,
             conversation_history \in HeuristicHistories :
              process_question(question, conversation_history, english)
    \/ \E completion \in {ConnectionError, NotJSON, JSONList, UnrelatedDataset} :
           analyze_context_and_classify(completion)
    \/ \E search \in SearchOutcomes : retrieve_documents(search)
    \/ generate_and_summarize_answer(ShortAnswer)
    \/ validate_answer(No)
    \/ return_result

SpecHeuristic == Init /\ [][NextHeuristic]_vars

\* The first stage has run on a history that is not empty and its model call
\* failed or returned text that json.loads rejects.
HeuristicDecided ==
    /\ pc = Nodes[2]
    /\ call["conversation_history"] # <<>>
    /\ \/ llm_calls[1].completion.kind = "error"
       \/ llm_calls[1].completion.json = JSONDecodeError

\* The two questions share more than one whitespace-separated token, case
\* aside.
ShareTokens(question, hist_question) ==
    Cardinality(SplitWords(lower(question))
                    \cap SplitWords(lower(hist_question))) > 1

\* Both questions contain one and the same term of the medical or of the
\* dataset dictionary, case aside.
ShareTerm(question, hist_question) ==
    \E term \in Range(medical_keywords) \cup Range(dataset_keywords) :
        /\ Contains(lower(question), term)
        /\ Contains(lower(hist_question), term)

\* The pairs of the history whose question shares tokens or a term with the
\* new question, in the order of the history.
PairsByKeywords(question, history) ==
    LET related == SelectSeq(history,
                       LAMBDA item : \/ ShareTokens(question, item.question)
                                     \/ ShareTerm(question, item.question))
    IN  [k \in 1..Len(related) |->
            [question |-> related[k].question, answer |-> related[k].answer]]

\* C23: with a history that is not empty, when the model call of the first
\* stage fails or its payload does not parse, the related pairs are those of
\* the history entries whose question shares more than one token with the
\* new question or a dictionary term with it, question_type is general, and
\* the stage sets no error.
C23_FallbackIsKeywordHeuristic ==
    HeuristicDecided =>
        /\ state["related_previous_qa"]
               = PairsByKeywords(call["question"], call["conversation_history"])
        /\ state["question_type"] = general
        /\ "error" \notin DOMAIN state
        /\ Nodes[1] \notin failed_stages

\* The model call failed; of 'Who took part?' and 'Who funds MESA?' only the
\* second, which shares two words with 'WHO FUNDS IT?', is related.
C23_Witness ==
    /\ HeuristicDecided
    /\ llm_calls[1].completion = ConnectionError
    /\ call["question"] = WhoFundsIt
    /\ call["conversation_history"] = <<WhoTookPartTurn, WhoFundsMESATurn>>
    /\ state["related_previous_qa"]
           = <<[question |-> WhoFundsMESATurn.question,
                answer   |-> WhoFundsMESATurn.answer]>>


----------------------------------------------------------------------------
(* The generation stage when the model answers in prose.                   *)

\* Prose of five lines with a fenced block:
\* 'See:', three backticks, 'BMI is 25 %', three backticks, 'Done.'
\* What the fence cleaning leaves, 'BMI is 25 %', does not decode.
FencedProse ==
    [kind    |-> "content",
     content |-> <<"S", "e", "e", ":", "\n", "U+0060", "U+0060", "U+0060",
                 "\n", "B", "M", "I", " ", "i", "s", " ", "2", "5", " ",
                 "%", "\n", "U+0060", "U+0060", "U+0060", "\n", "D", "o",
                 "n", "e", ".">>,
     json    |-> JSONDecodeError]

NextGeneration ==
    \/ /\ calls < MaxCalls
       /\ \E conversation_history \in Histories :
              process_question(WhatIsBMI, conversation_history, english)
    \/ \E completion \in {NotJSON, UnrelatedDataset} :
           analyze_context_and_classify(completion)
    \/ \E search \in SearchOutcomes : retrieve_documents(search)
    \/ \E completion \in {ConnectionError, ShortAnswer, ProseAnswer, FencedProse} :
           generate_and_summarize_answer(completion)
    \/ validate_answer(No)
    \/ return_result

SpecGeneration == Init /\ [][NextGeneration]_vars

\* The generation stage has run and the model returned text that does not
\* decode.
ResponseNotParsed ==
    /\ pc = Nodes[4]
    /\ llm_calls[Len(llm_calls)].completion.kind = "content"
    /\ llm_calls[Len(llm_calls)].completion.json = JSONDecodeError

\* C24: when the response of the generation stage does not parse, the stage
\* does not fail: answer is the normalisation of the whole response as the
\* model returned it, summary_answer its first three lines joined by spaces
\* if it has three lines, else its first 200 characters, and the sources are
\* those of the retrieved documents.
C24_WholeResponseIsTheAnswer ==
    ResponseNotParsed =>
        LET raw == llm_calls[Len(llm_calls)].completion.content
        IN  /\ Nodes[3] \notin failed_stages
            /\ state["answer"] = _ensure_markdown_format(raw)
            /\ state["summary_answer"] = PyStr(FallbackSummary(raw))
            /\ state["sources"]
                   = _extract_sources(Get(state, "retrieved_documents", <<>>))

\* The model answered with the fenced prose; the answer is built from the
\* block inside the fence alone and the summary is that block, not the
\* first three lines of the response.
C24_Witness ==
    /\ ResponseNotParsed
    /\ llm_calls[Len(llm_calls)].completion = FencedProse
    /\ Nodes[3] \notin failed_stages
    /\ state["answer"] = _ensure_markdown_format(SubSeq(FencedProse.content, 10, 20))
    /\ state["summary_answer"] = PyStr(SubSeq(FencedProse.content, 10, 20))
    /\ state["summary_answer"] # PyStr(FallbackSummary(FencedProse.content))


----------------------------------------------------------------------------
(* The history entries the first stage shows the model and the entries it  *)
(* takes from the indices the model returns.                               *)

\* Six turns, one more than the prompt shows.
SixTurns ==
    <<WhoTookPartTurn, PreviousTurn, WhatIsMESATurn, WhoFundsMESATurn,
      HowManyCohortsTurn, WhoFundsThemTurn>>

IndexHistories == {<<WhatIsMESATurn, WhoFundsMESATurn>>, SixTurns}

NextIndices ==
    \/ /\ calls < MaxCalls
       /\ \E question \in {IsMESALongitudinal, WhoFundsIt, WhoTookPart},
             conversation_history \in IndexHistories :
              process_question(question, conversation_history, english)
    \/ \E completion \in {RelatedVariable, ConnectionError} :
           analyze_context_and_classify(completion)
    \/ \E search \in SearchOutcomes : retrieve_documents(search)
    \/ generate_and_summarize_answer(ShortAnswer)
    \/ validate_answer(No)
    \/ return_result

SpecIndices == Init /\ [][NextIndices]_vars

\* history[-5:], the entries _format_history_for_analysis numbers from 1.
ShownToModel(history) == LastN(history, 5)

\* The question and the answer of a history entry.
PairOf(item) == [question |-> item.question, answer |-> item.answer]

\* The pairs of the entries the prompt showed under the numbers of indices.
PairsShownUnder(indices, history) ==
    LET shown  == ShownToModel(history)
        chosen == SelectSeq(indices,
                      LAMBDA idx : 1 <= idx.v /\ idx.v <= Len(shown))
    IN  [k \in 1..Len(chosen) |-> PairOf(shown[chosen[k].v])]

\* C25: after the first stage every pair of related_previous_qa is one of the
\* last 5 entries of the history, and when the model returned indices the
\* pairs are those of the entries the prompt showed under these indices.
C25_OnlyLastFiveAsShown ==
    (pc = Nodes[2] /\ Nodes[1] \notin failed_stages) =>
        LET history    == call["conversation_history"]
            completion == llm_calls[1].completion
        IN  /\ \A k \in 1..Len(state["related_previous_qa"]) :
                   \E item \in Range(ShownToModel(history)) :
                       state["related_previous_qa"][k] = PairOf(item)
            /\ completion = RelatedVariable =>
                   state["related_previous_qa"]
                       = PairsShownUnder(
                             completion.json.v["context_analysis"].v["related_qa_indices"].v,
                             history)

\* The prompt showed 'What is MESA?' as 1 and 'Who funds MESA?' as 2; the
\* model returned the indices 0, 1 and 5, and the pairs taken are the first
\* and the second turn.
C25_Witness ==
    /\ pc = Nodes[2]
    /\ Nodes[1] \notin failed_stages
    /\ llm_calls[1].completion = RelatedVariable
    /\ call["conversation_history"] = <<WhatIsMESATurn, WhoFundsMESATurn>>
    /\ Contains(llm_calls[1].prompt.context_info,
                <<"2", ".", " ", "Q", ":", " ">> \o WhoFundsMESATurn.question)
    /\ state["related_previous_qa"]
           = <<PairOf(WhatIsMESATurn), PairOf(WhoFundsMESATurn)>>


----------------------------------------------------------------------------
(* The inputs of an invocation in its final state and in its bundle.       *)

\* The dict d holds the three inputs of the call as they were passed.
HoldsInputs(d) ==
    /\ {"question", "conversation_history", "output_language"} \subseteq DOMAIN d
    /\ d["question"] = call["question"]
    /\ d["conversation_history"] = call["conversation_history"]
    /\ d["output_language"] = call["output_language"]

\* C26: no stage changes the inputs: the final state of the workflow and the
\* bundle that process_question returns from it hold question,
\* conversation_history and output_language as they were passed.
C26_InputsAreKept ==
    /\ pc = "END" => HoldsInputs(state)
    /\ (pc = "idle" /\ calls > 0 /\ ~exception.raised) => HoldsInputs(result)

\* A call with output_language 'chinese' has returned without an error:
\* question and history are those passed, the bundle has no output_language
\* and the generation prompt was written for 'english'.
C26_Witness ==
    /\ pc = "idle"
    /\ calls > 0
    /\ ~exception.raised
    /\ "error" \notin DOMAIN result
    /\ call["output_language"] = chinese
    /\ result["question"] = call["question"]
    /\ result["conversation_history"] = call["conversation_history"]
    /\ "output_language" \notin DOMAIN result
    /\ llm_calls[Len(llm_calls)].node = Nodes[3]
    /\ llm_calls[Len(llm_calls)].prompt.language = english


----------------------------------------------------------------------------
(* QuestionProcessor (handlers/question_processor.py)                      *)

\* datetime.isoformat(): the time as a string.
isoformat(timestamp) == <<"T">> \o IntToStr(timestamp)

\* Every question of the chat with whatever follows it, answered or not.
AllQuestions(messages) ==
    LET asked_at == SelectSeq([k \in 1..Len(messages) |-> k],
                        LAMBDA k : messages[k].type = "user")
    IN  [n \in 1..Len(asked_at) |->
            [question  |-> messages[asked_at[n]].content,
             answer    |-> IF asked_at[n] < Len(messages)
                           THEN messages[asked_at[n] + 1].content
                           ELSE <<>>,
             timestamp |-> isoformat(messages[asked_at[n]].timestamp)]]

\* Lines 100-123: for i = 0, 2, 4, ... a user message at i followed at i + 1
\* by an assistant message whose content is not empty makes an entry; the
\* last 3 entries are kept. Positions count from 0 in the code, from 1 here.
ConversationHistory(messages) ==
    LET starts   == [k \in 1..((Len(messages) + 1) \div 2) |-> 2 * k - 1]
        complete == SelectSeq(starts,
                        LAMBDA i : /\ messages[i].type = "user"
                                   /\ i + 1 <= Len(messages)
                                   /\ messages[i + 1].type = "assistant"
                                   /\ messages[i + 1].content # <<>>)
        conversation_history ==
            [n \in 1..Len(complete) |->
                [question  |-> messages[complete[n]].content,
                 answer    |-> messages[complete[n] + 1].content,
                 timestamp |-> isoformat(messages[complete[n]].timestamp)]]
    IN  LastN(conversation_history, 3)

\* 'Detailed Analysis'
DetailedAnalysis ==
    <<"D", "e", "t", "a", "i", "l", "e", "d", " ", "A", "n", "a", "l", "y",
      "s", "i", "s">>

\* format_summary_answer (lines 52-94) for a summary without Markdown markup:
\* standardize_detailed_answer_format puts the title '## Detailed Analysis'
\* before a text that does not begin with '#', the title becomes a line that
\* begins with the clipboard sign U+1F4CB, blank lines are dropped and the
\* text is stripped. What the substitutions do to titles, bullets, bold and
\* numbers inside the summary is not modelled.
format_summary_answer(raw_summary) ==
    IF strip(raw_summary) # <<>> /\ strip(raw_summary)[1] = "#"
    THEN strip(raw_summary)
    ELSE <<"U+1F4CB", " ">> \o DetailedAnalysis
             \o (IF strip(raw_summary) = <<>> THEN <<>>
                 ELSE <<"\n">> \o strip(raw_summary))

\* _format_detailed_answer (lines 171-225) of the rendered answer: the page
\* with the answer, the confidence and the sources. The rendering is not
\* modelled: the page is known by what it renders.
_format_detailed_answer(answer, confidence, sources) ==
    [frame |-> "Detailed Answer", markdown |-> answer,
     confidence |-> confidence, sources |-> sources]

\* 'Error processing question: '
ErrorProcessingQuestion ==
    <<"E", "r", "r", "o", "r", " ", "p", "r", "o", "c", "e", "s", "s", "i",
      "n", "g", " ", "q", "u", "e", "s", "t", "i", "o", "n", ":", " ">>

\* Lines 128-151 of QuestionProcessor.process_question: the bundle of the
\* pipeline is formatted. A summary that is no string raises in re.sub and
\* the except branch (lines 156-169) returns the error texts.
format_bundle(bundle) ==
    LET summary == Get(bundle, "summary_answer", PyStr(<<>>))
    IN  IF summary.t # "str"
        THEN [summary_answer  |-> ErrorProcessingQuestion \o ExpectedString,
              detailed_answer |->
                  [frame |-> "Processing Error",
                   markdown |-> ErrorProcessingQuestion \o ExpectedString]]
        ELSE [summary_answer  |-> format_summary_answer(summary.v),
              detailed_answer |->
                  _format_detailed_answer(Get(bundle, "answer", <<>>),
                                          Get(bundle, "confidence_score", 0),
                                          Get(bundle, "sources", <<>>))]

----------------------------------------------------------------------------
(* HistoryHandlers (handlers/history_handlers.py)                          *)

\* add_to_history, lines 10-21: the list with the new record.
add_to_history(history, question, detailed_answer, summary_answer, timestamp) ==
    Append(history,
           [question        |-> question,
            detailed_answer |-> detailed_answer,
            summary_answer  |-> summary_answer,
            timestamp       |-> timestamp,
            index           |-> Len(history)])

\* A step back that does not look where it is.
StepBack(history, current_index) == current_index - 1

\* handle_prev_answer, lines 48-66: the index it sets, or leaves.
handle_prev_answer(history, current_index) ==
    IF history = <<>> THEN current_index
    ELSE IF current_index = -1
    THEN (IF Len(history) >= 2 THEN Len(history) - 2 ELSE 0)
    ELSE IF current_index > 0 THEN current_index - 1
    ELSE current_index

\* handle_next_answer, lines 70-85.
handle_next_answer(history, current_index) ==
    IF history = <<>> \/ current_index = -1 THEN current_index
    ELSE IF current_index < Len(history) - 2 THEN current_index + 1
    ELSE -1

----------------------------------------------------------------------------
(* MessageHandlers (handlers/message_handlers.py) and the events of a      *)
(* session                                                                 *)

\* The number of send_message events of a session.
MaxSends == 5

\* A text of blanks, and a question as it is typed.
BlankInput == <<" ", "\n">>

TypedQuestion == <<" ">> \o WhatIsBMI \o <<" ">>

ChatInputs == {BlankInput, TypedQuestion}

\* The notice of line 62, before str(e): 'Sorry, an error occurred while handling your question:'
ErrorNoticePrefix ==
    <<"U+62B1", "U+6B49", "U+FF0C", "U+5904", "U+7406", "U+60A8", "U+7684",
      "U+95EE", "U+9898", "U+65F6", "U+51FA", "U+73B0", "U+9519", "U+8BEF",
      "U+FF1A">>

\* A handler that takes every text when it is not busy.
AcceptsBlank(question, busy) == ~busy

\* Lines 19-21: the question is handled if it is not empty and no question
\* is being processed.
Accepts(question, busy) == question # <<>> /\ ~busy

\* Events are handled at any time.
AnyTime == TRUE

\* The effects of an event run to their end before the next event of the
\* session is handled: handle_send_message awaits a coroutine,
\* QuestionProcessor.process_question, that has no await of its own and so
\* never gives up the event loop.
EffectsHaveRun == in_flight = <<>>

\* The user edits the input box.
type_text(text) ==
    /\ EffectsHaveRun
    /\ chat_input # text
    /\ chat_input' = text
    /\ UNCHANGED <<pc, call, state, exception, result, conversation_memory,
                   clock, calls, recorded, stages_run, failed_stages,
                   llm_calls, system_ready, asked, reply, tasks, vector_store,
                   index_builds, chat_messages, current_answer, is_processing,
                   answer_history, current_history_index, in_flight, sends>>

\* handle_send_message up to its await (lines 17-38): a text that is empty
\* once stripped, or a send while is_processing is set, returns at once;
\* otherwise is_processing is set, the user message is appended and the
\* input box is emptied.
send_message ==
    /\ EffectsHaveRun
    /\ sends < MaxSends
    /\ sends' = sends + 1
    /\ \E question \in {strip(chat_input)} :
           IF Accepts(question, is_processing)
           THEN \E timestamp \in {clock + 1} :
                    /\ is_processing' = TRUE
                    /\ clock' = timestamp
                    /\ chat_messages' =
                           Append(chat_messages,
                                  [type      |-> "user",
                                   content   |-> question,
                                   timestamp |-> timestamp])
                    /\ chat_input' = <<>>
                    /\ in_flight' =
                           Append(in_flight,
                                  [question  |-> question,
                                   messages  |-> chat_messages',
                                   timestamp |-> timestamp])
           ELSE UNCHANGED <<clock, chat_input, chat_messages, is_processing,
                            in_flight>>
    /\ UNCHANGED <<pc, call, state, exception, result, conversation_memory,
                   calls, recorded, stages_run, failed_stages, llm_calls,
                   system_ready, asked, reply, tasks, vector_store,
                   index_builds, current_answer, answer_history,
                   current_history_index>>

\* handle_send_message from its await on (lines 38-69), when nothing raises.
\* QuestionProcessor.process_question converts the messages it was given
\* into the history and calls the pipeline (line 126), which records the
\* exchange in its memory, or returns the demo-mode answer if there is no
\* pipeline. The assistant message is appended to the messages as they are
\* now, the detailed answer is displayed and added to the history, and the
\* finally clause resets is_processing.
send_message_returns(completion) ==
    /\ in_flight # <<>>
    /\ \E question \in {Head(in_flight).question},
          conversation_history \in {ConversationHistory(Head(in_flight).messages)} :
         \E bundle \in {IF system_ready
                        THEN BundleFor(question, conversation_history, completion)
                        ELSE EmptyDict} :
           \E processed \in {IF system_ready THEN format_bundle(bundle)
                             ELSE _fallback_answer(question)} :
             /\ asked' = question
             /\ reply' = processed
             /\ chat_messages' =
                    Append(chat_messages,
                           [type      |-> "assistant",
                            content   |-> processed.summary_answer,
                            timestamp |-> Head(in_flight).timestamp])
             /\ current_answer' = processed.detailed_answer
             /\ answer_history' =
                    add_to_history(answer_history, question,
                                   processed.detailed_answer,
                                   processed.summary_answer,
                                   Head(in_flight).timestamp)
             /\ current_history_index' = -1
             /\ IF system_ready
                THEN /\ clock' = clock + 1
                     /\ conversation_memory' =
                            _save_to_memory(conversation_memory, question,
                                            bundle, clock')
                     /\ recorded' =
                            Append(recorded,
                                   _save_to_memory(<<>>, question, bundle,
                                                   clock')[1])
                     /\ calls' = calls + 1
                     /\ call' = [question             |-> question,
                                 conversation_history |-> conversation_history,
                                 output_language      |-> english]
                     /\ result' = bundle
                ELSE UNCHANGED <<conversation_memory, clock, calls, recorded,
                                 call, result>>
    /\ is_processing' = FALSE
    /\ in_flight' = Tail(in_flight)
    /\ UNCHANGED <<pc, state, exception, stages_run, failed_stages, llm_calls,
                   system_ready, tasks, vector_store, index_builds, chat_input,
                   sends>>

\* handle_send_message when its try block raises after the user message was
\* appended and before the assistant message is: the except branch (lines
\* 58-67) appends the notice, the finally clause resets is_processing.
send_message_raises(message) ==
    /\ in_flight # <<>>
    /\ chat_messages' =
           Append(chat_messages,
                  [type      |-> "assistant",
                   content   |-> ErrorNoticePrefix \o message,
                   timestamp |-> Head(in_flight).timestamp])
    /\ is_processing' = FALSE
    /\ in_flight' = Tail(in_flight)
    /\ UNCHANGED <<pc, call, state, exception, result, conversation_memory,
                   clock, calls, recorded, stages_run, failed_stages,
                   llm_calls, system_ready, asked, reply, tasks, vector_store,
                   index_builds, chat_input, current_answer, answer_history,
                   current_history_index, sends>>

\* handle_clear_chat, lines 84-90.
clear_chat ==
    /\ EffectsHaveRun
    /\ chat_messages # <<>>
    /\ chat_messages' = <<>>
    /\ current_answer' = <<>>
    /\ answer_history' = <<>>
    /\ current_history_index' = -1
    /\ UNCHANGED <<pc, call, state, exception, result, conversation_memory,
                   clock, calls, recorded, stages_run, failed_stages,
                   llm_calls, system_ready, asked, reply, tasks, vector_store,
                   index_builds, chat_input, is_processing, in_flight, sends>>

\* The navigation events set the index of the history.
navigate(new_index) ==
    /\ EffectsHaveRun
    /\ current_history_index' = new_index
    /\ UNCHANGED <<pc, call, state, exception, result, conversation_memory,
                   clock, calls, recorded, stages_run, failed_stages,
                   llm_calls, system_ready, asked, reply, tasks, vector_store,
                   index_builds, chat_input, chat_messages, current_answer,
                   is_processing, answer_history, in_flight, sends>>

prev_answer == navigate(handle_prev_answer(answer_history, current_history_index))

next_answer == navigate(handle_next_answer(answer_history, current_history_index))

\* handle_goto_latest, lines 87-91.
goto_latest == navigate(-1)

NextSession ==
    \/ \E text \in ChatInputs : type_text(text)
    \/ send_message
    \/ \E completion \in TaskCompletions : send_message_returns(completion)
    \/ send_message_raises(OutOfMemory)
    \/ clear_chat
    \/ prev_answer
    \/ next_answer
    \/ goto_latest

SpecSession == Init /\ [][NextSession]_vars


\* The reactive values of the session and what the question processor and
\* the pipeline keep.
touched == <<chat_input, chat_messages, current_answer, is_processing,
             answer_history, current_history_index, in_flight,
             conversation_memory, calls, clock, asked, reply>>

\* C27: a send event whose text is empty once trimmed, or that comes while
\* is_processing is set, changes nothing; an accepted send sets
\* is_processing, and is_processing is reset when its handling ends, with an
\* answer or with an exception; at most one question of the session is in
\* flight, and is_processing is set exactly while one is.
C27_SendIsGuardedAndReleases ==
    /\ [](Len(in_flight) <= 1 /\ is_processing = (in_flight # <<>>))
    /\ [][/\ (sends' # sends /\ (strip(chat_input) = <<>> \/ is_processing)
                 => UNCHANGED touched)
          /\ (sends' # sends /\ strip(chat_input) # <<>> /\ ~is_processing
                 => is_processing' /\ Len(in_flight') = 1)
          /\ (Len(in_flight') < Len(in_flight) => ~is_processing')]_vars

\* A send of blanks was turned down, a question was sent, its handling
\* raised, and the session is free again.
C27_Witness ==
    /\ sends = 2
    /\ ~is_processing
    /\ in_flight = <<>>
    /\ Len(chat_messages) = 2
    /\ chat_messages[2].content = ErrorNoticePrefix \o OutOfMemory
    /\ answer_history = <<>>

\* The messages alternate: user, assistant, user, ...
Alternates(messages) ==
    \A k \in 1..Len(messages) :
        messages[k].type = IF k % 2 = 1 THEN "user" ELSE "assistant"

\* The chat of the session alternates and ends with a user message exactly
\* while a send is at its await.
ChatAlternates ==
    /\ Alternates(chat_messages)
    /\ Len(chat_messages) % 2 = Len(in_flight)

\* Every step that appends to the chat appends one message: a user message
\* when a send is accepted, an assistant message when its handling ends.
OneMessageAtATime ==
    Len(chat_messages') > Len(chat_messages) =>
        /\ Len(chat_messages') = Len(chat_messages) + 1
        /\ SubSeq(chat_messages', 1, Len(chat_messages)) = chat_messages
        /\ chat_messages'[Len(chat_messages')].type
               = IF Len(in_flight') > Len(in_flight) THEN "user" ELSE "assistant"

C29_HistoryIndexIsValid ==
    /\ [](/\ \/ current_history_index = -1
             \/ /\ 0 <= current_history_index
                /\ current_history_index < Len(answer_history)
          /\ (Len(answer_history) >= 2 =>
                  current_history_index # Len(answer_history) - 1)
          /\ (current_history_index = 0 =>
                  handle_prev_answer(answer_history, current_history_index) = 0)
          /\ (current_history_index = -1 =>
                  handle_next_answer(answer_history, current_history_index) = -1))
    /\ [][answer_history' # answer_history => current_history_index' = -1]_vars

\* With three answers in the history, prev_answer has been handled until the
\* first answer is on display.
C29_Witness ==
    /\ Len(answer_history) = 3
    /\ current_history_index = 0
    /\ handle_next_answer(answer_history, current_history_index) = 1

\* The positions of messages, from 1, at which a complete pair begins: a user
\* message at an even position of the code's count, followed by an
\* assistant message that is not empty.
CompletePairsOf(messages) ==
    {i \in 1..(Len(messages) - 1) :
        /\ i % 2 = 1
        /\ messages[i].type = "user"
        /\ messages[i + 1].type = "assistant"
        /\ messages[i + 1].content # <<>>}

\* The history holds, in the order of the chat, the 3 last complete pairs of
\* messages, or all if there are fewer.
IsRecentPairs(history, messages) ==
    LET pairs == CompletePairsOf(messages)
        kept  == {i \in pairs : Cardinality({j \in pairs : j > i}) < 3}
    IN  /\ Len(history) = Cardinality(kept)
        /\ \A n \in 1..Len(history) :
               \E i \in kept :
                   /\ Cardinality({j \in kept : j < i}) = n - 1
                   /\ history[n].question = messages[i].content
                   /\ history[n].answer = messages[i + 1].content

\* C30: the conversation_history that QuestionProcessor.process_question
\* passes to the pipeline holds the 3 most recent complete pairs of the
\* messages it was given, in chat order, and nothing else: the question
\* being asked, the last of these messages, is not in it.
C30_HistoryIsRecentCompletePairs ==
    [][calls' = calls + 1 =>
          /\ IsRecentPairs(call'["conversation_history"], Head(in_flight).messages)
          /\ Len(Head(in_flight).messages) \notin
                 CompletePairsOf(Head(in_flight).messages)
          /\ \A n \in 1..Len(call'["conversation_history"]) :
                 call'["conversation_history"][n].timestamp
                     # isoformat(Head(in_flight).timestamp)]_vars

\* The fifth question has been processed: four pairs were complete when it
\* was asked and the history passed holds the last three of them.
C30_Witness ==
    /\ calls = 5
    /\ Len(chat_messages) = 10
    /\ in_flight = <<>>
    /\ Len(call["conversation_history"]) = 3
    /\ call["conversation_history"][1].question = chat_messages[3].content
    /\ call["conversation_history"][1].answer = chat_messages[4].content
    /\ call["conversation_history"][3].answer = chat_messages[8].content

=============================================================================
